---------------------------- MODULE Spec2Model ----------------------------
(***************************************************************************)
(* GlobalTrustHub backend: the risk / trust scoring engine, the rate        *)
(* limiter, the scam alerts, permissions, tokens and document service.     *)
(*                                                                         *)
(*   - TrustScoreCalculator   ai_ml/trust_score_engine/score_calculator.py  *)
(*   - TrustScoreDecay        ai_ml/trust_score_engine/decay_logic.py       *)
(*   - ConfidenceScorer       ai_ml/document_verification/                  *)
(*                            confidence_scoring.py                         *)
(*   - calculate_scam_score   ai_ml/scam_language_analysis/                 *)
(*                            nlp_preprocessing.py                          *)
(*   - FraudFeatureExtractor  ai_ml/fraud_detection/feature_engineering.py  *)
(*   - RateLimiter            app/core/rate_limiter.py                      *)
(*   - AlertManager           ai_ml/scam_language_analysis/alerts.py        *)
(*   - ROLE_PERMISSIONS       app/core/permissions.py                       *)
(*   - tokens                 app/core/security.py, app/api/auth,           *)
(*                            app/dependencies.py                           *)
(*   - DocumentService        app/services/document_service.py              *)
(*                                                                         *)
(* Python floats are modelled as exact fixed-point or rational numbers:    *)
(* trust scores are counted in hundredths of a point, document confidence  *)
(* scores are fractions [num, den], scam scores are counted in             *)
(* thousandths.  Rounding error of the float arithmetic is not modelled.   *)
(***************************************************************************)
EXTENDS Integers, Sequences, FiniteSets, TLC

VARIABLES
    trust_call,               \* a call on trust_calculator: op, args, done, result
    auto_approve_threshold,   \* ConfidenceScorer.auto_approve_threshold (thousandths)
    auto_reject_threshold,    \* ConfidenceScorer.auto_reject_threshold  (thousandths)
    doc_call,                 \* a call on confidence_scorer: op, args, done, result
    doc_repeat,               \* the same call on confidence_scorer, made a second time
    scam_call,                \* a call of calculate_scam_score: op, args, done, result
    decay_call,               \* a call on trust_decay: op, args, done, result
    feature_call,             \* a call on fraud_feature_extractor: op, args, done, result
    requests_per_period,      \* RateLimiter.requests_per_period
    period_seconds,           \* RateLimiter.period_seconds
    _requests,                \* RateLimiter._requests: client id -> list of timestamps
    _lock,                    \* RateLimiter._lock: the task holding it, or Unlocked
    clock,                    \* the last value datetime.utcnow() returned, in seconds
    request,                  \* per task: where its is_allowed call stands, and its client id
    answered,                 \* the answers of is_allowed so far, in order
    alerts,                   \* AlertManager.alerts: the registry, in creation order
    alert_counts,             \* AlertManager.alert_counts: user id -> alerts counted
    alert_task,               \* per thread: where its create_alert call stands
    permission_call,          \* a call of has_permission: op, args, done, result
    tokens,                   \* the tokens issued so far
    token_now,                \* the time on the token clock, in minutes
    presented,                \* the last token presented to an endpoint, and the outcome
    service_call              \* a call on document_service: op, args, done, result

trust_vars == <<trust_call>>

doc_vars == <<auto_approve_threshold, auto_reject_threshold, doc_call, doc_repeat>>

scam_vars == <<scam_call>>

decay_vars == <<decay_call>>

feature_vars == <<feature_call>>

limiter_vars ==
    <<requests_per_period, period_seconds, _requests, _lock, clock, request, answered>>

alert_vars == <<alerts, alert_counts, alert_task>>

permission_vars == <<permission_call>>

token_vars == <<tokens, token_now, presented>>

service_vars == <<service_call>>

vars ==
    <<trust_vars, doc_vars, scam_vars, decay_vars, feature_vars, limiter_vars,
      alert_vars, permission_vars, token_vars, service_vars>>

Min(a, b) == IF a <= b THEN a ELSE b

Max(a, b) == IF a >= b THEN a ELSE b

(***************************************************************************)
(* Trust score engine                                                      *)
(***************************************************************************)

\* TrustLevel, in declaration order (list(TrustLevel)).
TrustLevel == <<"unverified", "bronze", "silver", "gold", "platinum">>

\* Thresholds in points.
LEVEL_THRESHOLDS ==
    [unverified |-> 0, bronze |-> 200, silver |-> 400, gold |-> 600, platinum |-> 800]

\* Weights in hundredths (0.25, 0.25, 0.20, 0.15, 0.15).
COMPONENT_WEIGHTS ==
    [verification |-> 25, transactions |-> 25, reviews |-> 20,
     activity |-> 15, behavior |-> 15]

MAX_COMPONENT_SCORE == 200

\* level_scores.get(verification_level, 0)
level_scores(verification_level) ==
    CASE verification_level = 0 -> 0
      [] verification_level = 1 -> 50
      [] verification_level = 2 -> 100
      [] verification_level = 3 -> 150
      [] OTHER -> 0

\* The bonus for verified documents is not cut at 30.
mutant_verification_score_documents_uncapped(verification_level, documents_verified, identity_confirmed) ==
    LET s1 == 0 + level_scores(verification_level)
        s2 == s1 + documents_verified * 10
        s3 == IF identity_confirmed THEN s2 + 20 ELSE s2
    IN  Min(s3, MAX_COMPONENT_SCORE)

\* Result in points.
calculate_verification_score(verification_level, documents_verified, identity_confirmed) ==
    LET s1 == 0 + level_scores(verification_level)
        s2 == s1 + Min(documents_verified * 10, 30)
        s3 == IF identity_confirmed THEN s2 + 20 ELSE s2
    IN  Min(s3, MAX_COMPONENT_SCORE)

\* The score is not floored at 0.
mutant_transaction_score_no_floor(successful_transactions, failed_transactions, total_value, dispute_rate) ==
    LET s1 == 0 + Min(successful_transactions * 5, 100)
        s2 == IF total_value > 10000 THEN s1 + 30
              ELSE IF total_value > 5000 THEN s1 + 20
              ELSE IF total_value > 1000 THEN s1 + 10
              ELSE s1
        s3 == s2 - failed_transactions * 10
        s4 == IF dispute_rate > 100 THEN s3 - 50
              ELSE IF dispute_rate > 50 THEN s3 - 25
              ELSE s3
    IN  Min(s4, MAX_COMPONENT_SCORE)

\* total_value in currency units, dispute_rate in thousandths; result in points.
calculate_transaction_score(successful_transactions, failed_transactions, total_value, dispute_rate) ==
    LET s1 == 0 + Min(successful_transactions * 5, 100)
        s2 == IF total_value > 10000 THEN s1 + 30
              ELSE IF total_value > 5000 THEN s1 + 20
              ELSE IF total_value > 1000 THEN s1 + 10
              ELSE s1
        s3 == s2 - failed_transactions * 10
        s4 == IF dispute_rate > 100 THEN s3 - 50
              ELSE IF dispute_rate > 50 THEN s3 - 25
              ELSE s3
    IN  Max(0, Min(s4, MAX_COMPONENT_SCORE))

\* average_rating in tenths of a star.  verified_ratio = verified_reviews /
\* max(total_reviews, 1) is a fraction, so the result is the fraction
\* [num, den] of points with den = max(total_reviews, 1).
calculate_review_score(total_reviews, average_rating, verified_reviews) ==
    LET den == Max(total_reviews, 1)
        s1  == 0 + Min(total_reviews * 3, 60)
        s2  == IF average_rating >= 45 THEN s1 + 80
               ELSE IF average_rating >= 40 THEN s1 + 60
               ELSE IF average_rating >= 35 THEN s1 + 40
               ELSE IF average_rating >= 30 THEN s1 + 20
               ELSE s1
        num == s2 * den + verified_reviews * 40
    IN  [num |-> Min(num, MAX_COMPONENT_SCORE * den), den |-> den]

\* login_frequency in tenths of a login per week, profile_completeness and
\* response_rate in hundredths; result in hundredths of a point.
calculate_activity_score(days_active, login_frequency, profile_completeness, response_rate) ==
    LET s1 == IF days_active > 365 THEN 4000
              ELSE IF days_active > 180 THEN 3000
              ELSE IF days_active > 90 THEN 2000
              ELSE IF days_active > 30 THEN 1000
              ELSE 0
        s2 == s1 + Min(login_frequency * 50, 3000)
        s3 == s2 + profile_completeness * 50
        s4 == s3 + response_rate * 50
    IN  Min(s4, MAX_COMPONENT_SCORE * 100)

mutant_behavior_score_no_floor(reported_count, scam_flags, positive_interactions, community_contributions) ==
    LET s1 == 100 - reported_count * 15
        s2 == s1 - scam_flags * 30
        s3 == s2 + Min(positive_interactions * 2, 50)
        s4 == s3 + Min(community_contributions * 5, 50)
    IN  Min(s4, MAX_COMPONENT_SCORE)

\* Result in points.
calculate_behavior_score(reported_count, scam_flags, positive_interactions, community_contributions) ==
    LET s1 == 100 - reported_count * 15
        s2 == s1 - scam_flags * 30
        s3 == s2 + Min(positive_interactions * 2, 50)
        s4 == s3 + Min(community_contributions * 5, 50)
    IN  Max(0, Min(s4, MAX_COMPONENT_SCORE))

\* sum(breakdown.values())
SumBreakdown(breakdown) ==
    breakdown.verification + breakdown.transactions + breakdown.reviews
        + breakdown.activity + breakdown.behavior

\* The behavior component is taken as a penalty: its share is subtracted.
mutant_total_score_behavior_subtracted(verification_score, transaction_score, review_score, activity_score, behavior_score) ==
    LET breakdown ==
            [verification |-> verification_score * COMPONENT_WEIGHTS.verification,
             transactions |-> transaction_score * COMPONENT_WEIGHTS.transactions,
             reviews      |-> review_score * COMPONENT_WEIGHTS.reviews,
             activity     |-> activity_score * COMPONENT_WEIGHTS.activity,
             behavior     |-> 0 - behavior_score * COMPONENT_WEIGHTS.behavior]
        total == SumBreakdown(breakdown) * 5
    IN  [total |-> Min(total, 1000 * 100), breakdown |-> breakdown]

\* The cap is written as a wrap-around instead of a minimum.
mutant_total_score_wraps(verification_score, transaction_score, review_score, activity_score, behavior_score) ==
    LET breakdown ==
            [verification |-> verification_score * COMPONENT_WEIGHTS.verification,
             transactions |-> transaction_score * COMPONENT_WEIGHTS.transactions,
             reviews      |-> review_score * COMPONENT_WEIGHTS.reviews,
             activity     |-> activity_score * COMPONENT_WEIGHTS.activity,
             behavior     |-> behavior_score * COMPONENT_WEIGHTS.behavior]
        total == SumBreakdown(breakdown) * 5
    IN  [total |-> total % (1000 * 100), breakdown |-> breakdown]

\* The weights of reviews and activity are exchanged.
mutant_total_score_weights_swapped(verification_score, transaction_score, review_score, activity_score, behavior_score) ==
    LET breakdown ==
            [verification |-> verification_score * COMPONENT_WEIGHTS.verification,
             transactions |-> transaction_score * COMPONENT_WEIGHTS.transactions,
             reviews      |-> review_score * COMPONENT_WEIGHTS.activity,
             activity     |-> activity_score * COMPONENT_WEIGHTS.reviews,
             behavior     |-> behavior_score * COMPONENT_WEIGHTS.behavior]
        total == SumBreakdown(breakdown) * 5
    IN  [total |-> Min(total, 1000 * 100), breakdown |-> breakdown]

\* Component scores in points; breakdown and total in hundredths of a point.
calculate_total_score(verification_score, transaction_score, review_score, activity_score, behavior_score) ==
    LET breakdown ==
            [verification |-> verification_score * COMPONENT_WEIGHTS.verification,
             transactions |-> transaction_score * COMPONENT_WEIGHTS.transactions,
             reviews      |-> review_score * COMPONENT_WEIGHTS.reviews,
             activity     |-> activity_score * COMPONENT_WEIGHTS.activity,
             behavior     |-> behavior_score * COMPONENT_WEIGHTS.behavior]
        total == SumBreakdown(breakdown) * 5
    IN  [total |-> Min(total, 1000 * 100), breakdown |-> breakdown]

\* The levels are scanned in declaration order instead of reversed.
mutant_trust_level_forward(score) ==
    LET RECURSIVE scan(_)
        scan(i) ==
            IF i > Len(TrustLevel) THEN "unverified"
            ELSE IF score >= LEVEL_THRESHOLDS[TrustLevel[i]] * 100 THEN TrustLevel[i]
            ELSE scan(i + 1)
    IN  scan(1)

\* score in hundredths of a point.  for level in reversed(list(TrustLevel)).
get_trust_level(score) ==
    LET RECURSIVE scan(_)
        scan(i) ==
            IF i < 1 THEN "unverified"
            ELSE IF score >= LEVEL_THRESHOLDS[TrustLevel[i]] * 100 THEN TrustLevel[i]
            ELSE scan(i - 1)
    IN  scan(Len(TrustLevel))

(***************************************************************************)
(* Inputs of the trust score engine.  The scorers validate nothing, so the *)
(* sets hold out-of-range values next to the valid ones.                   *)
(***************************************************************************)

VerificationLevels == -1 .. 4

DocumentsVerifiedValues == {-5, -1, 0, 1, 2, 3, 5}

SuccessfulValues == {-1, 0, 1, 10, 20, 21, 50}

FailedValues == {-1, 0, 1, 2, 15}

TotalValueValues == {0, 1000, 1001, 5000, 5001, 10000, 10001}

DisputeRateValues == {-100, 0, 50, 51, 100, 101, 150, 1000, 1500}

TotalReviewsValues == {-1, 0, 1, 2, 3, 20, 50}

AverageRatingValues == {-10, 0, 29, 30, 34, 35, 39, 40, 44, 45, 48, 50, 60}

VerifiedReviewsValues == {-1, 0, 1, 2, 40, 50, 100}

DaysActiveValues == {-1, 0, 30, 31, 90, 91, 180, 181, 365, 366}

LoginFrequencyValues == {-10, 0, 10, 60, 70, 200}

RatioValues == {-50, 0, 50, 100, 150}

ReportedValues == {-1, 0, 1, 7}

ScamFlagValues == {-1, 0, 1, 4}

PositiveValues == {-1, 0, 10, 25, 30}

ContributionValues == {-1, 0, 5, 10, 12}

ComponentScoreValues == {-20, 0, 60, 80, 100, 150, 200, 250}

TrustScoreValues ==
    {-100, 0, 10000, 19999, 20000, 39900, 39999, 40000, 51250, 59999, 60000,
     79999, 80000, 100000, 100100}

(***************************************************************************)
(* Fractions: the exact values of the float expressions of the document    *)
(* verification scorer.  A fraction is [num, den] with den > 0, reduced.   *)
(***************************************************************************)

Abs(n) == IF n < 0 THEN 0 - n ELSE n

RECURSIVE GCD(_, _)
GCD(a, b) == IF b = 0 THEN a ELSE GCD(b, a % b)

\* The outcome of a division by zero.  Python raises ZeroDivisionError and
\* the exception leaves every expression the quotient is part of, so each
\* operation on fractions hands it on.
ZeroDivisionError == [num |-> 0, den |-> 0]

Frac(n, d) ==
    LET g == GCD(Abs(n), d)
    IN  IF d = 0 THEN ZeroDivisionError
        ELSE IF n = 0 THEN [num |-> 0, den |-> 1]
        ELSE [num |-> n \div g, den |-> d \div g]

FracAdd(a, b) ==
    LET g == GCD(a.den, b.den)
    IN  IF a.den = 0 \/ b.den = 0 THEN ZeroDivisionError
        ELSE Frac(a.num * (b.den \div g) + b.num * (a.den \div g), a.den * (b.den \div g))

FracMul(a, b) ==
    LET x == Frac(a.num, b.den)
        y == Frac(b.num, a.den)
    IN  IF a.den = 0 \/ b.den = 0 THEN ZeroDivisionError
        ELSE Frac(x.num * y.num, x.den * y.den)

\* a / b, for b >= 0
FracDiv(a, b) == FracMul(a, [num |-> b.den, den |-> b.num])

\* a <= b, for fractions with small terms
FracLeq(a, b) == a.num * b.den <= b.num * a.den

\* score >= t / 1000
FracGeqThousandths(score, t) == score.num * 1000 >= t * score.den

(***************************************************************************)
(* Document verification: ConfidenceScorer                                 *)
(***************************************************************************)

\* The weights of calculate_score, in hundredths.
weights ==
    [ocr_quality |-> 20, authenticity |-> 40, validation |-> 25, cross_reference |-> 15]

\* The keys of the scores dict, in insertion order.
ScoreKeys == <<"ocr_quality", "authenticity", "validation", "cross_reference">>

\* The number of fields is the divisor as it is, also when there is none.
mutant_score_ocr_quality_unguarded(ocr_result) ==
    LET base_confidence == ocr_result.confidence
        fields == ocr_result.fields
        filled_fields == Cardinality({i \in 1 .. Len(fields) : fields[i]})
        total_fields == Len(fields)
        field_ratio == Frac(filled_fields, total_fields)
    IN  FracAdd(FracMul(Frac(base_confidence, 100), Frac(6, 10)),
                FracMul(field_ratio, Frac(4, 10)))

\* ocr_result.confidence is in hundredths; ocr_result.fields is the sequence of
\* the field values, TRUE for a value that is not None.
_score_ocr_quality(ocr_result) ==
    LET base_confidence == ocr_result.confidence
        fields == ocr_result.fields
        filled_fields == Cardinality({i \in 1 .. Len(fields) : fields[i]})
        total_fields == IF Len(fields) > 0 THEN Len(fields) ELSE 1
        field_ratio == Frac(filled_fields, total_fields)
    IN  FracAdd(FracMul(Frac(base_confidence, 100), Frac(6, 10)),
                FracMul(field_ratio, Frac(4, 10)))

\* The forgery verdict is tested after the score thresholds.
mutant_make_decision_forgery_last(score, forgery_result) ==
    IF FracGeqThousandths(score, auto_approve_threshold) THEN "approve"
    ELSE IF ~FracGeqThousandths(score, auto_reject_threshold) THEN "reject"
    ELSE IF forgery_result.forgery_detected THEN "reject"
    ELSE "review"

\* Reads the thresholds held by the scorer.
_make_decision(score, forgery_result) ==
    IF forgery_result.forgery_detected THEN "reject"
    ELSE IF FracGeqThousandths(score, auto_approve_threshold) THEN "approve"
    ELSE IF ~FracGeqThousandths(score, auto_reject_threshold) THEN "reject"
    ELSE "review"

\* `if cross_reference:` an absent (None) or empty dict supplies nothing.
CrossReferenceSupplied(cross_reference) ==
    cross_reference.kind \in {"match_score", "no_match_score"}

\* The scores dict of calculate_score.
ComponentScores(ocr_result, forgery_result, validation_result, cross_reference) ==
    [k \in {"ocr_quality", "authenticity", "validation"}
            \cup (IF CrossReferenceSupplied(cross_reference)
                  THEN {"cross_reference"} ELSE {}) |->
        CASE k = "ocr_quality" -> _score_ocr_quality(ocr_result)
          [] k = "authenticity" -> FracAdd(Frac(1, 1), Frac(0 - forgery_result.confidence, 100))
          [] k = "validation" -> IF validation_result.is_valid THEN Frac(1, 1) ELSE Frac(5, 10)
          [] k = "cross_reference" ->
                IF cross_reference.kind = "match_score"
                THEN Frac(cross_reference.match_score, 100)
                ELSE Frac(5, 10)]

\* sum(weights[k] for k in scores.keys())
RECURSIVE TotalWeight(_, _)
TotalWeight(scores, i) ==
    IF i > Len(ScoreKeys) THEN Frac(0, 1)
    ELSE IF ScoreKeys[i] \in DOMAIN scores
         THEN FracAdd(Frac(weights[ScoreKeys[i]], 100), TotalWeight(scores, i + 1))
         ELSE TotalWeight(scores, i + 1)

\* sum(scores[k] * weights[k] for k in scores.keys())
RECURSIVE WeightedSum(_, _)
WeightedSum(scores, i) ==
    IF i > Len(ScoreKeys) THEN Frac(0, 1)
    ELSE IF ScoreKeys[i] \in DOMAIN scores
         THEN FracAdd(FracMul(scores[ScoreKeys[i]], Frac(weights[ScoreKeys[i]], 100)),
                      WeightedSum(scores, i + 1))
         ELSE WeightedSum(scores, i + 1)

\* The weighted sum is returned as it is, not divided by the total weight.
mutant_overall_score_not_renormalized(scores) ==
    WeightedSum(scores, 1)

\* weighted_sum / total_weight if total_weight > 0 else 0
OverallScore(scores) ==
    LET total_weight == TotalWeight(scores, 1)
        weighted_sum == WeightedSum(scores, 1)
    IN  IF total_weight.num > 0 THEN FracDiv(weighted_sum, total_weight) ELSE Frac(0, 1)

\* The timestamp of the result is left out.
calculate_score(ocr_result, forgery_result, validation_result, cross_reference) ==
    LET scores == ComponentScores(ocr_result, forgery_result, validation_result,
                                  cross_reference)
        overall_score == OverallScore(scores)
        decision == _make_decision(overall_score, forgery_result)
    IN  [overall_score          |-> overall_score,
         component_scores       |-> scores,
         decision               |-> decision,
         requires_manual_review |-> decision = "review",
         auto_approved          |-> decision = "approve",
         auto_rejected          |-> decision = "reject"]

\* min(d.get("overall_score", 0) for d in document_scores), non-empty
RECURSIVE MinScore(_, _)
MinScore(document_scores, i) ==
    IF i = Len(document_scores) THEN document_scores[i].overall_score
    ELSE LET rest == MinScore(document_scores, i + 1)
         IN  IF FracLeq(document_scores[i].overall_score, rest)
             THEN document_scores[i].overall_score ELSE rest

\* any(d.get("decision") == decision for d in document_scores)
AnyDecision(document_scores, decision) ==
    \E i \in 1 .. Len(document_scores) : document_scores[i].decision = decision

\* A pending review is looked for before a rejection.
mutant_document_set_score_review_first(document_scores) ==
    IF Len(document_scores) = 0
    THEN [overall_score |-> Frac(0, 1), decision |-> "reject", documents_analyzed |-> 0]
    ELSE [overall_score      |-> MinScore(document_scores, 1),
          decision           |-> IF AnyDecision(document_scores, "review") THEN "review"
                                 ELSE IF AnyDecision(document_scores, "reject") THEN "reject"
                                 ELSE "approve",
          documents_analyzed |-> Len(document_scores)]

\* individual_scores, the argument handed back, is left out of the result.
calculate_document_set_score(document_scores) ==
    IF Len(document_scores) = 0
    THEN [overall_score |-> Frac(0, 1), decision |-> "reject", documents_analyzed |-> 0]
    ELSE [overall_score      |-> MinScore(document_scores, 1),
          decision           |-> IF AnyDecision(document_scores, "reject") THEN "reject"
                                 ELSE IF AnyDecision(document_scores, "review") THEN "review"
                                 ELSE "approve",
          documents_analyzed |-> Len(document_scores)]

high_risk_types == {"passport", "cnic", "bank_statement"}

medium_risk_types == {"degree", "experience_letter"}

\* The pair (auto_approve_threshold, auto_reject_threshold) that
\* adjust_thresholds stores for document_type, in thousandths.
adjust_thresholds(document_type) ==
    IF document_type \in high_risk_types THEN <<980, 400>>
    ELSE IF document_type \in medium_risk_types THEN <<920, 350>>
    ELSE <<900, 300>>

(***************************************************************************)
(* Inputs of the document verification scorer                              *)
(***************************************************************************)

\* The largest number of fields in an OCR result.
MaxFields == 2

\* The largest number of documents in a document set.
MaxDocuments == 3

\* "transcript" stands for every type in neither risk list.
DocumentTypes ==
    {"passport", "cnic", "bank_statement", "degree", "experience_letter", "transcript"}

ConfidenceValues == {0, 50, 100, 120}

ForgeryConfidenceValues == {0, 15, 100, 150}

FieldMaps == UNION {[1 .. n -> BOOLEAN] : n \in 0 .. MaxFields}

OcrResults == [confidence : ConfidenceValues, fields : FieldMaps]

ForgeryResults == [confidence : ForgeryConfidenceValues, forgery_detected : BOOLEAN]

ValidationResults == [is_valid : BOOLEAN]

CrossReferences ==
    {[kind |-> "none", match_score |-> 0], [kind |-> "empty", match_score |-> 0],
     [kind |-> "no_match_score", match_score |-> 0]}
    \cup {[kind |-> "match_score", match_score |-> m] : m \in {0, 50, 100, 130}}

\* Scores in thousandths, around every threshold the scorer can hold.
DecisionScoreValues ==
    {0, 299, 300, 349, 350, 399, 400, 500, 899, 900, 919, 920, 949, 950, 979, 980, 1000}

DocumentResults ==
    [overall_score : {Frac(0, 1), Frac(5, 10), Frac(1, 1)},
     decision : {"approve", "reject", "review"}]

DocumentSets == UNION {[1 .. n -> DocumentResults] : n \in 0 .. MaxDocuments}

(***************************************************************************)
(* Scam language analysis: the rule-based score                            *)
(***************************************************************************)

\* The categories of SCAM_PATTERNS, in the order detect_patterns scans them.
SCAM_PATTERNS ==
    <<"urgency", "false_guarantee", "suspicious_payment", "too_good", "pressure",
      "secrecy", "impersonation">>

\* Weights in tenths (1.0, 1.5, 2.0, 1.5, 1.0, 1.5, 1.2).
CATEGORY_WEIGHTS ==
    [urgency |-> 10, false_guarantee |-> 15, suspicious_payment |-> 20, too_good |-> 15,
     pressure |-> 10, secrecy |-> 15, impersonation |-> 12]

\* The largest number of pattern matches of one category in a text.
MaxHits == 3

\* The list detect_patterns returns for a text with found[c] matches of each
\* category c: the matches category by category; a match is the category and
\* an ordinal standing for the matched text.  The regular expressions
\* themselves are not modelled.
RECURSIVE detect_patterns(_, _)
detect_patterns(found, i) ==
    IF i > Len(SCAM_PATTERNS) THEN <<>>
    ELSE [k \in 1 .. found[SCAM_PATTERNS[i]] |->
             [category |-> SCAM_PATTERNS[i], matched_text |-> k]]
         \o detect_patterns(found, i + 1)

\* The keys of category_hits in insertion order: the categories of matches in
\* order of first appearance.
RECURSIVE CategoryKeys(_, _, _)
CategoryKeys(matches, i, keys) ==
    IF i > Len(matches) THEN keys
    ELSE IF \E j \in 1 .. Len(keys) : keys[j] = matches[i].category
         THEN CategoryKeys(matches, i + 1, keys)
         ELSE CategoryKeys(matches, i + 1, Append(keys, matches[i].category))

\* category_hits[category]
RECURSIVE CategoryHits(_, _, _)
CategoryHits(matches, category, i) ==
    IF i > Len(matches) THEN <<>>
    ELSE IF matches[i].category = category
         THEN <<matches[i].matched_text>> \o CategoryHits(matches, category, i + 1)
         ELSE CategoryHits(matches, category, i + 1)

\* The contribution of a category is not capped.
mutant_category_score_uncapped(category, hits) ==
    LET weight == IF category \in DOMAIN CATEGORY_WEIGHTS
                  THEN CATEGORY_WEIGHTS[category] ELSE 10
    IN  Len(hits) * weight * 10

\* min(len(hits) * weight * 0.1, 0.3), in thousandths
CategoryScore(category, hits) ==
    LET weight == IF category \in DOMAIN CATEGORY_WEIGHTS
                  THEN CATEGORY_WEIGHTS[category] ELSE 10
    IN  Min(Len(hits) * weight * 10, 300)

\* The loop over category_hits.items(): the reasons, in order.
Reasons(matches) ==
    LET keys == CategoryKeys(matches, 1, <<>>)
    IN  [j \in 1 .. Len(keys) |->
            LET hits == CategoryHits(matches, keys[j], 1)
            IN  [category |-> keys[j], hits |-> hits,
                 contribution |-> CategoryScore(keys[j], hits)]]

RECURSIVE SumContributions(_, _)
SumContributions(reasons, j) ==
    IF j > Len(reasons) THEN 0
    ELSE reasons[j].contribution + SumContributions(reasons, j + 1)

\* calculate_scam_score after detect_patterns; score in thousandths.
calculate_scam_score(matches) ==
    IF Len(matches) = 0 THEN [score |-> 0, reasons |-> <<>>]
    ELSE LET reasons == Reasons(matches)
             weighted_sum == SumContributions(reasons, 1)
         IN  [score |-> Min(weighted_sum, 1000), reasons |-> reasons]

(***************************************************************************)
(* Trust score decay: TrustScoreDecay with the default DecayConfig.        *)
(* Times are counted in hours, scores in points; a rate of the             *)
(* configuration is kept in hundredths.                                    *)
(***************************************************************************)

INACTIVITY_THRESHOLD_DAYS == 30

\* 0.02 per week: 2 hundredths
INACTIVITY_DECAY_RATE == 2

\* 0.30, in millionths
MAX_INACTIVITY_DECAY == 300000

\* 0.02, 0.05, 0.15 in hundredths
NEGATIVE_REVIEW_DECAY == 2

REPORT_DECAY == 5

SUBSCRIPTION_LAPSE_DECAY == 15

\* 0.01, 0.05, 0.10 in hundredths
POSITIVE_REVIEW_RECOVERY == 1

ACTIVITY_RECOVERY_RATE == 5

MAX_RECOVERY_PER_WEEK == 10

HoursPerDay == 24

\* timedelta.days: the whole days of a time difference, rounded down.
TimedeltaDays(hours) ==
    IF hours >= 0 THEN hours \div HoursPerDay
    ELSE 0 - ((0 - hours + HoursPerDay - 1) \div HoursPerDay)

\* math.exp(-INACTIVITY_DECAY_RATE * days_over / 7) in millionths, rounded to
\* the nearest millionth, for the days_over = days_inactive - 30 that the
\* inputs below produce.
ExpDecay ==
    (0 :> 1000000) @@ (1 :> 997147) @@ (7 :> 980199) @@ (14 :> 960789) @@
    (30 :> 917856) @@ (70 :> 818731) @@ (124 :> 701674) @@ (125 :> 699673) @@
    (126 :> 697676) @@ (335 :> 383988) @@ (970 :> 62573) @@ (4970 :> 1)

\* The reason returned when there is no decay.
None == [text |-> "None", days_inactive |-> 0, decay_factor |-> 0]

\* The comparison with the threshold is strict: the 30th day decays.
mutant_inactivity_decay_threshold_strict(last_activity, now, current_score) ==
    LET days_inactive == TimedeltaDays(now - last_activity)
    IN  IF days_inactive < INACTIVITY_THRESHOLD_DAYS
        THEN [decay_amount |-> 0, reason |-> None]
        ELSE LET decay_factor ==
                     Min(1000000 - ExpDecay[days_inactive - INACTIVITY_THRESHOLD_DAYS],
                         MAX_INACTIVITY_DECAY)
             IN  [decay_amount |-> current_score * decay_factor,
                  reason |-> [text |-> "Inactive for {days_inactive} days (decay: {decay_factor:.1%})",
                              days_inactive |-> days_inactive,
                              decay_factor |-> decay_factor]]

\* The decay factor is not cut at MAX_INACTIVITY_DECAY.
mutant_inactivity_decay_uncapped(last_activity, now, current_score) ==
    LET days_inactive == TimedeltaDays(now - last_activity)
    IN  IF days_inactive <= INACTIVITY_THRESHOLD_DAYS
        THEN [decay_amount |-> 0, reason |-> None]
        ELSE LET decay_factor ==
                     1000000 - ExpDecay[days_inactive - INACTIVITY_THRESHOLD_DAYS]
             IN  [decay_amount |-> current_score * decay_factor,
                  reason |-> [text |-> "Inactive for {days_inactive} days (decay: {decay_factor:.1%})",
                              days_inactive |-> days_inactive,
                              decay_factor |-> decay_factor]]

\* now is the value datetime.utcnow() returns inside the call.  decay_factor
\* is in millionths, decay_amount in millionths of a point.
calculate_inactivity_decay(last_activity, now, current_score) ==
    LET days_inactive == TimedeltaDays(now - last_activity)
    IN  IF days_inactive <= INACTIVITY_THRESHOLD_DAYS
        THEN [decay_amount |-> 0, reason |-> None]
        ELSE LET decay_factor ==
                     Min(1000000 - ExpDecay[days_inactive - INACTIVITY_THRESHOLD_DAYS],
                         MAX_INACTIVITY_DECAY)
             IN  [decay_amount |-> current_score * decay_factor,
                  reason |-> [text |-> "Inactive for {days_inactive} days (decay: {decay_factor:.1%})",
                              days_inactive |-> days_inactive,
                              decay_factor |-> decay_factor]]

\* DecayReason
DecayReason ==
    {"inactivity", "document_expiry", "negative_review", "report_received",
     "subscription_lapse", "failed_verification"}

\* decay_rates.get(reason, 0.05), in hundredths
decay_rates(reason) ==
    CASE reason = "negative_review" -> NEGATIVE_REVIEW_DECAY
      [] reason = "report_received" -> REPORT_DECAY
      [] reason = "subscription_lapse" -> SUBSCRIPTION_LAPSE_DECAY
      [] reason = "failed_verification" -> 10
      [] OTHER -> 5

\* The new score is not floored at 0.
mutant_event_decay_no_floor(reason, current_score, severity) ==
    LET decay_amount == current_score * (decay_rates(reason) * severity)
    IN  [new_score |-> current_score * 1000 - decay_amount, decay_amount |-> decay_amount]

\* severity in tenths; new_score and decay_amount in thousandths of a point.
apply_event_decay(reason, current_score, severity) ==
    LET base_decay == decay_rates(reason)
        actual_decay == base_decay * severity
        decay_amount == current_score * actual_decay
        new_score == Max(0, current_score * 1000 - decay_amount)
    IN  [new_score |-> new_score, decay_amount |-> decay_amount]

\* The recovery is not cut at the distance to the base score.
mutant_recovery_not_cut_at_base(current_score, base_score, positive_events, active_weeks) ==
    IF current_score >= base_score
    THEN [recovery |-> 0, reason |-> "No recovery needed"]
    ELSE [recovery |-> Min(positive_events * POSITIVE_REVIEW_RECOVERY * base_score
                             + active_weeks * ACTIVITY_RECOVERY_RATE * base_score,
                           MAX_RECOVERY_PER_WEEK * base_score),
          reason |-> "Recovery: {positive_events} positive events, {active_weeks} active weeks"]

\* The recovery in hundredths of a point.
calculate_recovery(current_score, base_score, positive_events, active_weeks) ==
    IF current_score >= base_score
    THEN [recovery |-> 0, reason |-> "No recovery needed"]
    ELSE LET from_reviews == positive_events * POSITIVE_REVIEW_RECOVERY * base_score
             from_activity == active_weeks * ACTIVITY_RECOVERY_RATE * base_score
             total_recovery == Min(from_reviews + from_activity,
                                   MAX_RECOVERY_PER_WEEK * base_score)
             max_possible == (base_score - current_score) * 100
         IN  [recovery |-> Min(total_recovery, max_possible),
              reason |-> "Recovery: {positive_events} positive events, {active_weeks} active weeks"]

\* DecayConfig.DOC_EXPIRY_DECAY, in hundredths
DOC_EXPIRY_DECAY == 10

\* The loop of calculate_document_expiry_decay from the i-th document on.  A
\* document is a dict; doc.get("expiry_date") is None when it has no such
\* key.  The decay is in hundredths of a point.
RECURSIVE ExpiryDecayFrom(_, _, _, _)
ExpiryDecayFrom(documents, now, current_score, i) ==
    IF i > Len(documents) THEN [total_decay |-> 0, expired_docs |-> <<>>]
    ELSE LET doc == documents[i]
             rest == ExpiryDecayFrom(documents, now, current_score, i + 1)
         IN  IF "expiry_date" \notin DOMAIN doc THEN rest
             ELSE IF doc.expiry_date < now
             THEN LET decay == current_score * DOC_EXPIRY_DECAY
                  IN  [total_decay |-> decay + rest.total_decay,
                       expired_docs |->
                           <<[document_type |-> doc.type,
                              expired_at |-> doc.expiry_date,
                              decay_applied |-> decay]>> \o rest.expired_docs]
             ELSE rest

mutant_document_expiry_decay_capped(documents, now, current_score) ==
    LET uncapped == ExpiryDecayFrom(documents, now, current_score, 1)
    IN  [uncapped EXCEPT !.total_decay = Min(@, current_score * 100)]

\* now is the value datetime.utcnow() returns inside the call.
calculate_document_expiry_decay(documents, now, current_score) ==
    ExpiryDecayFrom(documents, now, current_score, 1)

\* timedelta(weeks=1), in hours
HoursPerWeek == 168

\* A score the forecast has reached, kept as the product it is:
\* points * keep[1]/10^6 * ... * keep[n]/10^6, each keep[i] being
\* 10^6 - decay_factor of one week, in millionths.
Product(points, keep) == [points |-> points, keep |-> keep]

\* reason or "No decay"
NoDecay == [text |-> "No decay", days_inactive |-> 0, decay_factor |-> 0]

\* The loop of get_decay_forecast from the given week on; score is the
\* running score.  reads are the values datetime.utcnow() returns during the
\* call, in order: two in each iteration, the first for projected_date, the
\* second inside calculate_inactivity_decay.  decay_amount is
\* current_score * decay_factor, so the decay of a score is the decay of one
\* point times that score: the entry keeps the decay as the score it was
\* taken from and the decay_factor, and projected_score = score - decay as
\* the score with one more factor.  max(0, projected_score) is 0 for a
\* negative score, as every factor is positive.
RECURSIVE ForecastFrom(_, _, _, _, _)
ForecastFrom(week, weeks_ahead, score, last_activity, reads) ==
    IF week > weeks_ahead THEN <<>>
    ELSE LET projected_date == reads[2 * week - 1] + week * HoursPerWeek
             answer == calculate_inactivity_decay(last_activity, reads[2 * week], 1)
             decay_factor == answer.decay_amount
             projected_score == Product(score.points,
                                        Append(score.keep, 1000000 - decay_factor))
         IN  <<[week |-> week,
                date |-> projected_date,
                projected_score |-> IF projected_score.points < 0
                                    THEN Product(0, <<>>)
                                    ELSE projected_score,
                decay |-> [score |-> score, decay_factor |-> decay_factor],
                reason |-> IF answer.reason = None THEN NoDecay ELSE answer.reason]>>
             \o ForecastFrom(week + 1, weeks_ahead, projected_score, last_activity, reads)

\* The documents argument is not used.
get_decay_forecast(current_score, last_activity, weeks_ahead, reads) ==
    ForecastFrom(1, weeks_ahead, Product(current_score, <<>>), last_activity, reads)

(***************************************************************************)
(* Inputs of the trust score decay                                         *)
(***************************************************************************)

\* The hours between last_activity and now: 7, 30, 31, 37, 44, 60, 100, 154,
\* 155, 156, 365, 1000 and 5000 days, some with a part of a day more, and a
\* last_activity that lies in the future.
ElapsedHoursValues ==
    {-30, 0, 168, 720, 743, 744, 767, 888, 1056, 1441, 2400, 3696, 3720, 3744,
     8760, 24000, 120000}

\* datetime.utcnow(), in hours since some origin
NowValues == {200000, 200013}

DecayScoreValues == {-50, 0, 1, 450, 490, 500, 1000}

\* severity in tenths: the documented range is 0.5 to 2.0
SeverityValues == {-10, 0, 5, 10, 20, 70, 250}

EventCountValues == {-1, 0, 1, 2, 5, 20}

\* The expired documents of a list, and the other documents in it.
MaxExpiredDocuments == 11

MaxOtherDocuments == 2

ExpiredDocument(now) == [type |-> "passport", expiry_date |-> now - 1]

\* A document with no expiry date, one that expires now and one that
\* expires tomorrow.
OtherDocuments(now) ==
    {[type |-> "cnic"],
     [type |-> "visa", expiry_date |-> now],
     [type |-> "license", expiry_date |-> now + HoursPerDay]}

OtherDocumentLists(now) ==
    UNION {[1 .. n -> OtherDocuments(now)] : n \in 0 .. MaxOtherDocuments}

\* The expired documents come first or last in the list.
DocumentLists(now) ==
    UNION {{[i \in 1 .. n |-> ExpiredDocument(now)] \o others,
            others \o [i \in 1 .. n |-> ExpiredDocument(now)]} :
              n \in 0 .. MaxExpiredDocuments, others \in OtherDocumentLists(now)}

ExpiryScoreValues == {-50, 0, 1, 450, 1000}

\* The weeks of a forecast; the default is 4.
MaxWeeksAhead == 4

\* Trust scores, which are not negative.
ForecastScoreValues == {0, 1, 450, 1000}

\* The hours between last_activity and the start of a forecast: the days
\* of ElapsedHoursValues whose next hour is a day of ExpDecay too.
ForecastElapsedValues == {-30, 0, 168, 720, 743, 744, 888, 1056, 2400}

\* The values datetime.utcnow() returns in n successive reads from now on:
\* the clock does not go back, and it may tick between any two reads.
ClockReads(now, n) ==
    {[i \in 1 .. n |-> IF i >= tick THEN now + 1 ELSE now] : tick \in 1 .. n + 1}

(***************************************************************************)
(* Fraud detection: FraudFeatureExtractor.  A list of the input is a       *)
(* sequence of records; a ratio feature is a fraction.                     *)
(***************************************************************************)

\* sum(entry[field] for entry in list)
RECURSIVE SumOf(_, _, _)
SumOf(list, field, i) ==
    IF i > Len(list) THEN 0 ELSE list[i][field] + SumOf(list, field, i + 1)

\* max(entry[field] for entry in list), list not empty
RECURSIVE MaxOf(_, _, _)
MaxOf(list, field, i) ==
    IF i = Len(list) THEN list[i][field]
    ELSE Max(list[i][field], MaxOf(list, field, i + 1))

\* min(entry[field] for entry in list), list not empty
RECURSIVE MinOf(_, _, _)
MinOf(list, field, i) ==
    IF i = Len(list) THEN list[i][field]
    ELSE Min(list[i][field], MinOf(list, field, i + 1))

\* An entry of activity_logs is its action_type and after_cutoff, the outcome
\* of a.get("timestamp", datetime.min) > cutoff.
extract_activity_features(activity_logs, timeframe_hours) ==
    IF Len(activity_logs) = 0
    THEN [activity_count_24h   |-> 0,
          unique_actions       |-> 0,
          messages_sent        |-> 0,
          login_count          |-> 0,
          avg_session_duration |-> 0]
    ELSE LET recent == {i \in 1 .. Len(activity_logs) : activity_logs[i].after_cutoff}
             action_types == {activity_logs[i].action_type : i \in recent}
             messages == {i \in recent : activity_logs[i].action_type = "message_sent"}
             logins == {i \in recent : activity_logs[i].action_type = "login"}
         IN  [activity_count_24h   |-> Cardinality(recent),
              unique_actions       |-> Cardinality(action_types),
              messages_sent        |-> Cardinality(messages),
              login_count          |-> Cardinality(logins),
              avg_session_duration |-> 15,
              activity_velocity    |-> Frac(Cardinality(recent), Max(timeframe_hours, 1))]

\* An entry of transactions is its status and its amount.
extract_transaction_features(transactions) ==
    IF Len(transactions) = 0
    THEN [total_transactions   |-> 0,
          successful_rate      |-> Frac(0, 1),
          avg_amount           |-> Frac(0, 1),
          max_amount           |-> 0,
          transaction_velocity |-> Frac(0, 1)]
    ELSE LET successful == {i \in 1 .. Len(transactions) :
                               transactions[i].status = "completed"}
         IN  [total_transactions   |-> Len(transactions),
              successful_count     |-> Cardinality(successful),
              successful_rate      |-> Frac(Cardinality(successful), Len(transactions)),
              avg_amount           |-> Frac(SumOf(transactions, "amount", 1), Len(transactions)),
              max_amount           |-> MaxOf(transactions, "amount", 1),
              min_amount           |-> MinOf(transactions, "amount", 1),
              total_amount         |-> SumOf(transactions, "amount", 1),
              transaction_velocity |-> Frac(Len(transactions), 30)]

\* An entry of connections is is_verified and trust_score; user_id is not read.
extract_network_features(user_id, connections) ==
    IF Len(connections) = 0
    THEN [connection_count     |-> 0,
          verified_connections |-> 0,
          avg_connection_trust |-> Frac(0, 1)]
    ELSE LET verified == {i \in 1 .. Len(connections) : connections[i].is_verified}
         IN  [connection_count     |-> Len(connections),
              verified_connections |-> Cardinality(verified),
              verified_ratio       |-> Frac(Cardinality(verified), Len(connections)),
              avg_connection_trust |-> Frac(SumOf(connections, "trust_score", 1),
                                            Len(connections)),
              min_connection_trust |-> MinOf(connections, "trust_score", 1)]

(***************************************************************************)
(* Inputs of the feature extractors                                        *)
(***************************************************************************)

\* The largest number of entries in activity_logs.
MaxActivities == 2

\* The largest number of entries in transactions.
MaxTransactions == 2

\* The largest number of entries in connections.
MaxConnections == 2

ActivityLogs ==
    UNION {[1 .. n -> [action_type : {"login", "message_sent", "profile_update"},
                       after_cutoff : BOOLEAN]] : n \in 0 .. MaxActivities}

TimeframeHoursValues == {-1, 0, 1, 24}

TransactionLists ==
    UNION {[1 .. n -> [status : {"completed", "failed"}, amount : {0, 250}]] :
              n \in 0 .. MaxTransactions}

ConnectionLists ==
    UNION {[1 .. n -> [is_verified : BOOLEAN, trust_score : {0, 700}]] :
              n \in 0 .. MaxConnections}

(***************************************************************************)
(* Calls.  A call is drawn with its arguments in the initial state and the *)
(* operation named by it answers it once: the scorers of the trust engine  *)
(* keep no state between calls.                                            *)
(***************************************************************************)

Call(op, args) == [op |-> op, args |-> args, done |-> FALSE, result |-> <<>>]

NoCall == [op |-> "none", args |-> <<>>, done |-> FALSE, result |-> <<>>]

Answer(call, result) == [call EXCEPT !.done = TRUE, !.result = result]

(***************************************************************************)
(* Each part of the backend at rest: no call made on it, its objects as    *)
(* their constructors leave them.                                          *)
(***************************************************************************)

\* ConfidenceScorer.__init__
InitDoc ==
    /\ auto_approve_threshold = 950
    /\ auto_reject_threshold = 300

TrustIdle == trust_call = NoCall

DocIdle == InitDoc /\ doc_call = NoCall /\ doc_repeat = NoCall

ScamIdle == scam_call = NoCall

DecayIdle == decay_call = NoCall

FeatureIdle == feature_call = NoCall

\* The number of tasks calling is_allowed concurrently.
MaxTasks == 2

Tasks == 1 .. MaxTasks

\* _get_client_id: the IP address, followed by the user id when the request
\* is authenticated.
Clients == {"10.0.0.1", "10.0.0.1:7"}

Unlocked == 0

NoRequest == [pc |-> "idle", client_id |-> "none"]

\* RateLimiter.__init__
RateLimiterInit(limit, period) ==
    /\ requests_per_period = limit
    /\ period_seconds = period
    /\ _requests = [c \in Clients |-> <<>>]
    /\ _lock = Unlocked
    /\ clock = 0
    /\ request = [t \in Tasks |-> NoRequest]
    /\ answered = <<>>

\* auth_limiter, with no request made
LimiterIdle == RateLimiterInit(10, 60)

\* The subjects alerts are created for.
Users == {"u1", "u2"}

\* The number of threads calling create_alert concurrently.
MaxAlertTasks == 2

AlertTasks == 1 .. MaxAlertTasks

NoAlertTask == [pc |-> "idle", user_id |-> "none", scam_score |-> 0, user_history |-> 0]

\* AlertManager.__init__; alert_counts.get(user_id, 0) reads 0 for a user
\* with no entry, so the dict is the function that is 0 there.
AlertManagerInit ==
    /\ alerts = <<>>
    /\ alert_counts = [u \in Users |-> 0]

AlertIdle == AlertManagerInit /\ alert_task = [t \in AlertTasks |-> NoAlertTask]

PermissionIdle == permission_call = NoCall

\* No token has been presented to an endpoint yet.
NoPresentation ==
    [operation |-> "none", token |-> "none", at |-> 0, accepted |-> FALSE]

TokenIdle == tokens = {} /\ token_now = 0 /\ presented = NoPresentation

ServiceIdle == service_call = NoCall

TrustCalls ==
    {Call("calculate_verification_score", a) :
        a \in [verification_level : VerificationLevels,
               documents_verified : DocumentsVerifiedValues,
               identity_confirmed : BOOLEAN]}
    \cup
    {Call("calculate_transaction_score", a) :
        a \in [successful_transactions : SuccessfulValues,
               failed_transactions : FailedValues,
               total_value : TotalValueValues,
               dispute_rate : DisputeRateValues]}
    \cup
    {Call("calculate_review_score", a) :
        a \in [total_reviews : TotalReviewsValues,
               average_rating : AverageRatingValues,
               verified_reviews : VerifiedReviewsValues]}
    \cup
    {Call("calculate_activity_score", a) :
        a \in [days_active : DaysActiveValues,
               login_frequency : LoginFrequencyValues,
               profile_completeness : RatioValues,
               response_rate : RatioValues]}
    \cup
    {Call("calculate_behavior_score", a) :
        a \in [reported_count : ReportedValues,
               scam_flags : ScamFlagValues,
               positive_interactions : PositiveValues,
               community_contributions : ContributionValues]}
    \cup
    {Call("calculate_total_score", a) :
        a \in [verification_score : ComponentScoreValues,
               transaction_score : ComponentScoreValues,
               review_score : ComponentScoreValues,
               activity_score : ComponentScoreValues,
               behavior_score : ComponentScoreValues]}
    \cup
    {Call("get_trust_level", a) : a \in [score : TrustScoreValues]}

TrustPending(op) == trust_call.op = op /\ ~trust_call.done

CalculateVerificationScore ==
    /\ TrustPending("calculate_verification_score")
    /\ LET a == trust_call.args
       IN  trust_call' = Answer(trust_call,
               calculate_verification_score(a.verification_level, a.documents_verified,
                                            a.identity_confirmed))
    /\ UNCHANGED <<doc_vars, scam_vars, decay_vars, feature_vars, limiter_vars>>
    /\ UNCHANGED <<alert_vars, permission_vars, token_vars, service_vars>>

CalculateTransactionScore ==
    /\ TrustPending("calculate_transaction_score")
    /\ LET a == trust_call.args
       IN  trust_call' = Answer(trust_call,
               calculate_transaction_score(a.successful_transactions, a.failed_transactions,
                                           a.total_value, a.dispute_rate))
    /\ UNCHANGED <<doc_vars, scam_vars, decay_vars, feature_vars, limiter_vars>>
    /\ UNCHANGED <<alert_vars, permission_vars, token_vars, service_vars>>

CalculateReviewScore ==
    /\ TrustPending("calculate_review_score")
    /\ LET a == trust_call.args
       IN  trust_call' = Answer(trust_call,
               calculate_review_score(a.total_reviews, a.average_rating, a.verified_reviews))
    /\ UNCHANGED <<doc_vars, scam_vars, decay_vars, feature_vars, limiter_vars>>
    /\ UNCHANGED <<alert_vars, permission_vars, token_vars, service_vars>>

CalculateActivityScore ==
    /\ TrustPending("calculate_activity_score")
    /\ LET a == trust_call.args
       IN  trust_call' = Answer(trust_call,
               calculate_activity_score(a.days_active, a.login_frequency,
                                        a.profile_completeness, a.response_rate))
    /\ UNCHANGED <<doc_vars, scam_vars, decay_vars, feature_vars, limiter_vars>>
    /\ UNCHANGED <<alert_vars, permission_vars, token_vars, service_vars>>

CalculateBehaviorScore ==
    /\ TrustPending("calculate_behavior_score")
    /\ LET a == trust_call.args
       IN  trust_call' = Answer(trust_call,
               calculate_behavior_score(a.reported_count, a.scam_flags,
                                        a.positive_interactions, a.community_contributions))
    /\ UNCHANGED <<doc_vars, scam_vars, decay_vars, feature_vars, limiter_vars>>
    /\ UNCHANGED <<alert_vars, permission_vars, token_vars, service_vars>>

CalculateTotalScore ==
    /\ TrustPending("calculate_total_score")
    /\ LET a == trust_call.args
       IN  trust_call' = Answer(trust_call,
               calculate_total_score(a.verification_score, a.transaction_score,
                                     a.review_score, a.activity_score, a.behavior_score))
    /\ UNCHANGED <<doc_vars, scam_vars, decay_vars, feature_vars, limiter_vars>>
    /\ UNCHANGED <<alert_vars, permission_vars, token_vars, service_vars>>

GetTrustLevel ==
    /\ TrustPending("get_trust_level")
    /\ trust_call' = Answer(trust_call, get_trust_level(trust_call.args.score))
    /\ UNCHANGED <<doc_vars, scam_vars, decay_vars, feature_vars, limiter_vars>>
    /\ UNCHANGED <<alert_vars, permission_vars, token_vars, service_vars>>

InitTrust ==
    /\ trust_call \in TrustCalls
    /\ DocIdle /\ ScamIdle /\ DecayIdle /\ FeatureIdle /\ LimiterIdle
    /\ AlertIdle /\ PermissionIdle /\ TokenIdle /\ ServiceIdle

NextTrust ==
    \/ CalculateVerificationScore
    \/ CalculateTransactionScore
    \/ CalculateReviewScore
    \/ CalculateActivityScore
    \/ CalculateBehaviorScore
    \/ CalculateTotalScore
    \/ GetTrustLevel

\* The trust score engine alone.
SpecTrust == InitTrust /\ [][NextTrust]_vars

(***************************************************************************)
(* Operations of the shared confidence_scorer.  document_type is the type   *)
(* of the document a decision is made for; _make_decision and              *)
(* calculate_score do not take it, they read the thresholds left by the    *)
(* last adjust_thresholds (or by the constructor).                         *)
(***************************************************************************)

DocCalls ==
    {Call("_make_decision", a) :
        a \in [document_type : DocumentTypes,
               score : {Frac(v, 1000) : v \in DecisionScoreValues},
               forgery_result : ForgeryResults]}
    \cup
    {Call("calculate_score", a) :
        a \in [document_type : DocumentTypes,
               ocr_result : OcrResults,
               forgery_result : ForgeryResults,
               validation_result : ValidationResults,
               cross_reference : CrossReferences]}
    \cup
    {Call("calculate_document_set_score", a) : a \in [document_scores : DocumentSets]}

DocPending(op) == doc_call.op = op /\ ~doc_call.done

AdjustThresholds ==
    /\ \E document_type \in DocumentTypes :
          /\ auto_approve_threshold' = adjust_thresholds(document_type)[1]
          /\ auto_reject_threshold' = adjust_thresholds(document_type)[2]
    /\ UNCHANGED <<doc_call, doc_repeat>>
    /\ UNCHANGED <<trust_vars, scam_vars, decay_vars, feature_vars, limiter_vars>>
    /\ UNCHANGED <<alert_vars, permission_vars, token_vars, service_vars>>

MakeDecision ==
    /\ DocPending("_make_decision")
    /\ doc_call' = Answer(doc_call,
           _make_decision(doc_call.args.score, doc_call.args.forgery_result))
    /\ UNCHANGED <<auto_approve_threshold, auto_reject_threshold, doc_repeat>>
    /\ UNCHANGED <<trust_vars, scam_vars, decay_vars, feature_vars, limiter_vars>>
    /\ UNCHANGED <<alert_vars, permission_vars, token_vars, service_vars>>

CalculateScore ==
    /\ DocPending("calculate_score")
    /\ LET a == doc_call.args
       IN  doc_call' = Answer(doc_call,
               calculate_score(a.ocr_result, a.forgery_result, a.validation_result,
                               a.cross_reference))
    /\ UNCHANGED <<auto_approve_threshold, auto_reject_threshold, doc_repeat>>
    /\ UNCHANGED <<trust_vars, scam_vars, decay_vars, feature_vars, limiter_vars>>
    /\ UNCHANGED <<alert_vars, permission_vars, token_vars, service_vars>>

CalculateDocumentSetScore ==
    /\ DocPending("calculate_document_set_score")
    /\ doc_call' = Answer(doc_call,
           calculate_document_set_score(doc_call.args.document_scores))
    /\ UNCHANGED <<auto_approve_threshold, auto_reject_threshold, doc_repeat>>
    /\ UNCHANGED <<trust_vars, scam_vars, decay_vars, feature_vars, limiter_vars>>
    /\ UNCHANGED <<alert_vars, permission_vars, token_vars, service_vars>>

InitDocSpec ==
    /\ InitDoc
    /\ doc_call \in DocCalls
    /\ doc_repeat = NoCall
    /\ TrustIdle /\ ScamIdle /\ DecayIdle /\ FeatureIdle /\ LimiterIdle
    /\ AlertIdle /\ PermissionIdle /\ TokenIdle /\ ServiceIdle

NextDoc ==
    \/ AdjustThresholds
    \/ MakeDecision
    \/ CalculateScore
    \/ CalculateDocumentSetScore

\* The document verification scorer alone.
SpecDoc == InitDocSpec /\ [][NextDoc]_vars

(***************************************************************************)
(* The same calculate_score call made twice on the shared                  *)
(* confidence_scorer, with adjust_thresholds calls of other requests       *)
(* before, between and after.                                              *)
(***************************************************************************)

\* The calls that are repeated: a passport or a transcript without
\* cross-reference data.
RepeatCalls ==
    {c \in DocCalls :
        /\ c.op = "calculate_score"
        /\ c.args.document_type \in {"passport", "transcript"}
        /\ c.args.cross_reference.kind = "none"}

CalculateScoreAgain ==
    /\ doc_call.op = "calculate_score" /\ doc_call.done
    /\ ~doc_repeat.done
    /\ LET a == doc_call.args
       IN  doc_repeat' = Answer(Call(doc_call.op, a),
               calculate_score(a.ocr_result, a.forgery_result, a.validation_result,
                               a.cross_reference))
    /\ UNCHANGED <<auto_approve_threshold, auto_reject_threshold, doc_call>>
    /\ UNCHANGED <<trust_vars, scam_vars, decay_vars, feature_vars, limiter_vars>>
    /\ UNCHANGED <<alert_vars, permission_vars, token_vars, service_vars>>

InitDocRepeat ==
    /\ InitDoc
    /\ doc_call \in RepeatCalls
    /\ doc_repeat = NoCall
    /\ TrustIdle /\ ScamIdle /\ DecayIdle /\ FeatureIdle /\ LimiterIdle
    /\ AlertIdle /\ PermissionIdle /\ TokenIdle /\ ServiceIdle

NextDocRepeat ==
    \/ AdjustThresholds
    \/ CalculateScore
    \/ CalculateScoreAgain

SpecDocRepeat == InitDocRepeat /\ [][NextDocRepeat]_vars

(***************************************************************************)
(* Operations of the scam language analysis                                *)
(***************************************************************************)

CategoryNames == {SCAM_PATTERNS[i] : i \in 1 .. Len(SCAM_PATTERNS)}

ScamCalls ==
    {Call("calculate_scam_score", a) : a \in [found : [CategoryNames -> 0 .. MaxHits]]}

CalculateScamScore ==
    /\ scam_call.op = "calculate_scam_score" /\ ~scam_call.done
    /\ scam_call' = Answer(scam_call,
           calculate_scam_score(detect_patterns(scam_call.args.found, 1)))
    /\ UNCHANGED <<trust_vars, doc_vars, decay_vars, feature_vars, limiter_vars>>
    /\ UNCHANGED <<alert_vars, permission_vars, token_vars, service_vars>>

InitScam ==
    /\ scam_call \in ScamCalls
    /\ TrustIdle /\ DocIdle /\ DecayIdle /\ FeatureIdle /\ LimiterIdle
    /\ AlertIdle /\ PermissionIdle /\ TokenIdle /\ ServiceIdle

NextScam == CalculateScamScore

\* The scam language analysis alone.
SpecScam == InitScam /\ [][NextScam]_vars

(***************************************************************************)
(* Operations of trust_decay                                               *)
(***************************************************************************)

DecayCalls ==
    {Call("calculate_inactivity_decay",
          [last_activity |-> now - elapsed, now |-> now, current_score |-> score]) :
        now \in NowValues, elapsed \in ElapsedHoursValues, score \in DecayScoreValues}
    \cup
    {Call("apply_event_decay", a) :
        a \in [reason : DecayReason,
               current_score : DecayScoreValues,
               severity : SeverityValues]}
    \cup
    {Call("calculate_recovery", a) :
        a \in [current_score : DecayScoreValues,
               base_score : DecayScoreValues,
               positive_events : EventCountValues,
               active_weeks : EventCountValues]}
    \cup
    UNION {{Call("calculate_document_expiry_decay",
                 [documents |-> documents, now |-> now, current_score |-> score]) :
               documents \in DocumentLists(now), score \in ExpiryScoreValues} :
             now \in NowValues}
    \cup
    {Call("get_decay_forecast",
          [current_score |-> score, last_activity |-> now - elapsed, now |-> now,
           weeks_ahead |-> weeks_ahead]) :
        now \in NowValues, elapsed \in ForecastElapsedValues,
        score \in ForecastScoreValues, weeks_ahead \in 0 .. MaxWeeksAhead}

DecayPending(op) == decay_call.op = op /\ ~decay_call.done

CalculateInactivityDecay ==
    /\ DecayPending("calculate_inactivity_decay")
    /\ LET a == decay_call.args
       IN  decay_call' = Answer(decay_call,
               calculate_inactivity_decay(a.last_activity, a.now, a.current_score))
    /\ UNCHANGED <<trust_vars, doc_vars, scam_vars, feature_vars, limiter_vars>>
    /\ UNCHANGED <<alert_vars, permission_vars, token_vars, service_vars>>

ApplyEventDecay ==
    /\ DecayPending("apply_event_decay")
    /\ LET a == decay_call.args
       IN  decay_call' = Answer(decay_call,
               apply_event_decay(a.reason, a.current_score, a.severity))
    /\ UNCHANGED <<trust_vars, doc_vars, scam_vars, feature_vars, limiter_vars>>
    /\ UNCHANGED <<alert_vars, permission_vars, token_vars, service_vars>>

CalculateRecovery ==
    /\ DecayPending("calculate_recovery")
    /\ LET a == decay_call.args
       IN  decay_call' = Answer(decay_call,
               calculate_recovery(a.current_score, a.base_score, a.positive_events,
                                  a.active_weeks))
    /\ UNCHANGED <<trust_vars, doc_vars, scam_vars, feature_vars, limiter_vars>>
    /\ UNCHANGED <<alert_vars, permission_vars, token_vars, service_vars>>

CalculateDocumentExpiryDecay ==
    /\ DecayPending("calculate_document_expiry_decay")
    /\ LET a == decay_call.args
       IN  decay_call' = Answer(decay_call,
               calculate_document_expiry_decay(a.documents, a.now, a.current_score))
    /\ UNCHANGED <<trust_vars, doc_vars, scam_vars, feature_vars, limiter_vars>>
    /\ UNCHANGED <<alert_vars, permission_vars, token_vars, service_vars>>

GetDecayForecast ==
    /\ DecayPending("get_decay_forecast")
    /\ LET a == decay_call.args
       IN  \E reads \in ClockReads(a.now, 2 * a.weeks_ahead) :
              decay_call' = Answer(decay_call,
                  get_decay_forecast(a.current_score, a.last_activity,
                                     a.weeks_ahead, reads))
    /\ UNCHANGED <<trust_vars, doc_vars, scam_vars, feature_vars, limiter_vars>>
    /\ UNCHANGED <<alert_vars, permission_vars, token_vars, service_vars>>

InitDecay ==
    /\ decay_call \in DecayCalls
    /\ TrustIdle /\ DocIdle /\ ScamIdle /\ FeatureIdle /\ LimiterIdle
    /\ AlertIdle /\ PermissionIdle /\ TokenIdle /\ ServiceIdle

NextDecay ==
    \/ CalculateInactivityDecay
    \/ ApplyEventDecay
    \/ CalculateRecovery
    \/ CalculateDocumentExpiryDecay
    \/ GetDecayForecast

\* The trust score decay alone.
SpecDecay == InitDecay /\ [][NextDecay]_vars

(***************************************************************************)
(* Operations of fraud_feature_extractor                                   *)
(***************************************************************************)

FeatureCalls ==
    {Call("extract_activity_features", a) :
        a \in [activity_logs : ActivityLogs, timeframe_hours : TimeframeHoursValues]}
    \cup
    {Call("extract_transaction_features", a) : a \in [transactions : TransactionLists]}
    \cup
    {Call("extract_network_features", a) :
        a \in [user_id : {"u1"}, connections : ConnectionLists]}

FeaturePending(op) == feature_call.op = op /\ ~feature_call.done

ExtractActivityFeatures ==
    /\ FeaturePending("extract_activity_features")
    /\ feature_call' = Answer(feature_call,
           extract_activity_features(feature_call.args.activity_logs,
                                     feature_call.args.timeframe_hours))
    /\ UNCHANGED <<trust_vars, doc_vars, scam_vars, decay_vars, limiter_vars>>
    /\ UNCHANGED <<alert_vars, permission_vars, token_vars, service_vars>>

ExtractTransactionFeatures ==
    /\ FeaturePending("extract_transaction_features")
    /\ feature_call' = Answer(feature_call,
           extract_transaction_features(feature_call.args.transactions))
    /\ UNCHANGED <<trust_vars, doc_vars, scam_vars, decay_vars, limiter_vars>>
    /\ UNCHANGED <<alert_vars, permission_vars, token_vars, service_vars>>

ExtractNetworkFeatures ==
    /\ FeaturePending("extract_network_features")
    /\ feature_call' = Answer(feature_call,
           extract_network_features(feature_call.args.user_id,
                                    feature_call.args.connections))
    /\ UNCHANGED <<trust_vars, doc_vars, scam_vars, decay_vars, limiter_vars>>
    /\ UNCHANGED <<alert_vars, permission_vars, token_vars, service_vars>>

InitFeature ==
    /\ feature_call \in FeatureCalls
    /\ TrustIdle /\ DocIdle /\ ScamIdle /\ DecayIdle /\ LimiterIdle
    /\ AlertIdle /\ PermissionIdle /\ TokenIdle /\ ServiceIdle

NextFeature ==
    \/ ExtractActivityFeatures
    \/ ExtractTransactionFeatures
    \/ ExtractNetworkFeatures

\* The feature extractors alone.
SpecFeature == InitFeature /\ [][NextFeature]_vars

(***************************************************************************)
(* The functions that compute a ratio: calculate_review_score,             *)
(* calculate_score with _score_ocr_quality, and the feature extractors.    *)
(***************************************************************************)

InitRatio ==
    \/ /\ trust_call \in {c \in TrustCalls : c.op = "calculate_review_score"}
       /\ DocIdle /\ ScamIdle /\ DecayIdle /\ FeatureIdle /\ LimiterIdle
       /\ AlertIdle /\ PermissionIdle /\ TokenIdle /\ ServiceIdle
    \/ /\ InitDoc
       /\ doc_call \in {c \in DocCalls : c.op = "calculate_score"}
       /\ doc_repeat = NoCall
       /\ TrustIdle /\ ScamIdle /\ DecayIdle /\ FeatureIdle /\ LimiterIdle
       /\ AlertIdle /\ PermissionIdle /\ TokenIdle /\ ServiceIdle
    \/ InitFeature

NextRatio ==
    \/ CalculateReviewScore
    \/ CalculateScore
    \/ NextFeature

SpecRatio == InitRatio /\ [][NextRatio]_vars

(***************************************************************************)
(* The rate limiter: RateLimiter.is_allowed, called by concurrent tasks.   *)
(* Time is counted in seconds.  datetime.utcnow() is taken to return a     *)
(* value that never decreases; is_allowed reads it twice, first for now    *)
(* and then, in _clean_old_requests, for the cutoff.                       *)
(***************************************************************************)

\* The largest value of the clock.
MaxClock == 3

\* The largest number of is_allowed calls made.
MaxCalls == 4

\* The largest requests_per_period a limiter is constructed with.
MaxRequestsPerPeriod == 2

\* The largest period_seconds a limiter is constructed with.
MaxPeriodSeconds == 2

mutant_clean_keeps_boundary(client_id, cutoff_now) ==
    LET cutoff == cutoff_now - period_seconds
        Kept(ts) == ts >= cutoff
    IN  SelectSeq(_requests[client_id], Kept)

\* [ts for ts in self._requests[client_id] if ts > cutoff], for the cutoff
\* of a clock that shows cutoff_now
_clean_old_requests(client_id, cutoff_now) ==
    LET cutoff == cutoff_now - period_seconds
        Kept(ts) == ts > cutoff
    IN  SelectSeq(_requests[client_id], Kept)

\* min(self._requests[client_id]), list not empty
RECURSIVE Oldest(_, _)
Oldest(timestamps, i) ==
    IF i = Len(timestamps) THEN timestamps[i]
    ELSE Min(timestamps[i], Oldest(timestamps, i + 1))

\* The calls made so far, answered or not.
CallsMade == Len(answered) + Cardinality({t \in Tasks : request[t].pc # "idle"})

\* rate_limit_middleware calls limiter.is_allowed(request) for a request of
\* client_id; the task waits for the lock.
CallIsAllowed(t, client_id) ==
    /\ request[t].pc = "idle"
    /\ CallsMade < MaxCalls
    /\ request' = [request EXCEPT ![t] = [pc |-> "acquire", client_id |-> client_id]]
    /\ UNCHANGED <<requests_per_period, period_seconds, _requests, _lock, clock, answered>>
    /\ UNCHANGED <<trust_vars, doc_vars, scam_vars, decay_vars, feature_vars>>
    /\ UNCHANGED <<alert_vars, permission_vars, token_vars, service_vars>>

\* async with self._lock: entered when no task holds the lock.
AcquireLock(t) ==
    /\ request[t].pc = "acquire"
    /\ _lock = Unlocked
    /\ _lock' = t
    /\ request' = [request EXCEPT ![t].pc = "locked"]
    /\ UNCHANGED <<requests_per_period, period_seconds, _requests, clock, answered>>
    /\ UNCHANGED <<trust_vars, doc_vars, scam_vars, decay_vars, feature_vars>>
    /\ UNCHANGED <<alert_vars, permission_vars, token_vars, service_vars>>

\* The body of is_allowed, up to the release of the lock.
IsAllowed(t) ==
    /\ request[t].pc = "locked"
    /\ _lock = t
    /\ \E now \in clock .. MaxClock :
       \E cutoff_now \in now .. MaxClock :
          LET client_id == request[t].client_id
              cleaned == _clean_old_requests(client_id, cutoff_now)
              request_count == Len(cleaned)
              remaining == Max(0, requests_per_period - request_count)
              reset_at == IF Len(cleaned) > 0
                          THEN Oldest(cleaned, 1) + period_seconds
                          ELSE now + period_seconds
              allowed == ~(request_count >= requests_per_period)
              info == [limit     |-> requests_per_period,
                       remaining |-> IF allowed THEN remaining - 1 ELSE remaining,
                       reset_at  |-> reset_at]
          IN  /\ _requests' = [_requests EXCEPT ![client_id] =
                                  IF allowed THEN Append(cleaned, now) ELSE cleaned]
              /\ clock' = cutoff_now
              /\ answered' = Append(answered,
                                 [client_id |-> client_id, now |-> now,
                                  is_allowed |-> allowed, info |-> info])
    /\ _lock' = Unlocked
    /\ request' = [request EXCEPT ![t] = NoRequest]
    /\ UNCHANGED <<requests_per_period, period_seconds>>
    /\ UNCHANGED <<trust_vars, doc_vars, scam_vars, decay_vars, feature_vars>>
    /\ UNCHANGED <<alert_vars, permission_vars, token_vars, service_vars>>

InitLimiter ==
    /\ \E limit \in 1 .. MaxRequestsPerPeriod, period \in 1 .. MaxPeriodSeconds :
          RateLimiterInit(limit, period)
    /\ TrustIdle /\ DocIdle /\ ScamIdle /\ DecayIdle /\ FeatureIdle
    /\ AlertIdle /\ PermissionIdle /\ TokenIdle /\ ServiceIdle

NextLimiter ==
    \E t \in Tasks :
        \/ \E client_id \in Clients : CallIsAllowed(t, client_id)
        \/ AcquireLock(t)
        \/ IsAllowed(t)

\* A rate limiter alone.
SpecLimiter == InitLimiter /\ [][NextLimiter]_vars

(***************************************************************************)
(* Scam alerts: AlertManager, ai_ml/scam_language_analysis/alerts.py.      *)
(* Scam scores are counted in hundredths.  An alert keeps the fields the   *)
(* manager reads or writes after construction; alert_type, target_id and   *)
(* the caller's details are passed through unread and are left out (the    *)
(* details are taken to carry no scam_score or previous_alerts key of      *)
(* their own).  The id of an alert is its creation timestamp.              *)
(***************************************************************************)

\* AlertSeverity
AlertSeverity == {"low", "medium", "high", "critical"}

mutant_severity_critical_needs_both(scam_score, user_history) ==
    IF scam_score >= 80 /\ user_history >= 3 THEN "critical"
    ELSE IF scam_score >= 60 \/ user_history >= 2 THEN "high"
    ELSE IF scam_score >= 40 THEN "medium"
    ELSE "low"

\* create_alert: the severity, from the score and the user's history
severity(scam_score, user_history) ==
    IF scam_score >= 80 \/ user_history >= 3 THEN "critical"
    ELSE IF scam_score >= 60 \/ user_history >= 2 THEN "high"
    ELSE IF scam_score >= 40 THEN "medium"
    ELSE "low"

\* ScamAlert.__init__, with the details create_alert passes
ScamAlert(id, alert_severity, user_id, scam_score, user_history) ==
    [id |-> id,
     severity |-> alert_severity,
     user_id |-> user_id,
     scam_score |-> scam_score,
     previous_alerts |-> user_history,
     resolved |-> FALSE,
     resolved_by |-> "None"]

\* The timestamps a new alert can get: the wall clock does not go back, and
\* two alerts created within one tick of it get the same id.
LastId == IF alerts = <<>> THEN 0 ELSE alerts[Len(alerts)].id

FreshIds == {LastId + 1}

ClockIds == IF alerts = <<>> THEN {1} ELSE {LastId, LastId + 1}

\* create_alert, run by one caller at a time
create_alert(user_id, scam_score, id) ==
    LET user_history == alert_counts[user_id]
        alert == ScamAlert(id, severity(scam_score, user_history), user_id,
                           scam_score, user_history)
    IN  /\ alerts' = Append(alerts, alert)
        /\ alert_counts' = [alert_counts EXCEPT ![user_id] = user_history + 1]

mutant_resolve_alert_removes(registry, alert_id, resolved_by) ==
    LET matching == {i \in 1 .. Len(registry) : registry[i].id = alert_id}
    IN  IF matching = {}
        THEN [alerts |-> registry, result |-> 0]
        ELSE LET first == CHOOSE i \in matching : \A j \in matching : i <= j
             IN  [alerts |-> [i \in 1 .. Len(registry) - 1 |->
                                 IF i < first THEN registry[i] ELSE registry[i + 1]],
                  result |-> first]

\* resolve_alert: the registry afterwards and the alert returned, as its
\* position in the registry (0 for None)
resolve_alert(registry, alert_id, resolved_by) ==
    LET matching == {i \in 1 .. Len(registry) : registry[i].id = alert_id}
    IN  IF matching = {}
        THEN [alerts |-> registry, result |-> 0]
        ELSE LET first == CHOOSE i \in matching : \A j \in matching : i <= j
             IN  [alerts |-> [registry EXCEPT ![first].resolved = TRUE,
                                              ![first].resolved_by = resolved_by],
                  result |-> first]

\* get_user_alerts, as the positions of the alerts returned
get_user_alerts(user_id, include_resolved) ==
    {i \in 1 .. Len(alerts) :
        /\ alerts[i].user_id = user_id
        /\ (include_resolved \/ ~alerts[i].resolved)}

mutant_auto_block_skips_resolved(user_id, days_since) ==
    LET user_alerts == get_user_alerts(user_id, FALSE)
        critical_count ==
            Cardinality({i \in user_alerts : alerts[i].severity = "critical"})
        recent_high ==
            Cardinality({i \in user_alerts :
                            /\ alerts[i].severity \in {"high", "critical"}
                            /\ days_since[i] < 7})
    IN  critical_count >= 2 \/ recent_high >= 3

\* should_auto_block; days_since[i] is (utcnow() - created_at).days of the
\* i-th alert
should_auto_block(user_id, days_since) ==
    LET user_alerts == get_user_alerts(user_id, TRUE)
        critical_count ==
            Cardinality({i \in user_alerts : alerts[i].severity = "critical"})
        recent_high ==
            Cardinality({i \in user_alerts :
                            /\ alerts[i].severity \in {"high", "critical"}
                            /\ days_since[i] < 7})
    IN  critical_count >= 2 \/ recent_high >= 3

\* The ages the alerts can have when should_auto_block looks at them: an
\* earlier alert is no younger than a later one.
AgeValues == {0, 6, 7}

AlertAges ==
    {d \in [1 .. Len(alerts) -> AgeValues] :
        \A i, j \in 1 .. Len(alerts) : i <= j => d[i] >= d[j]}

\* Scores on both sides of each severity threshold.
ScamScoreValues == {39, 40, 59, 60, 79, 80}

\* The alerts created in a run of the severity specification.
MaxCreated == 4

CreateAlert ==
    /\ Len(alerts) < MaxCreated
    /\ \E user_id \in Users, scam_score \in ScamScoreValues, id \in FreshIds :
          create_alert(user_id, scam_score, id)
    /\ UNCHANGED <<alert_task>>
    /\ UNCHANGED <<trust_vars, doc_vars, scam_vars, decay_vars, feature_vars>>
    /\ UNCHANGED <<limiter_vars, permission_vars, token_vars, service_vars>>

InitAlert ==
    /\ AlertIdle
    /\ TrustIdle /\ DocIdle /\ ScamIdle /\ DecayIdle /\ FeatureIdle
    /\ LimiterIdle /\ PermissionIdle /\ TokenIdle /\ ServiceIdle

\* Alerts created one after another, none resolved.
SpecAlertSeverity == InitAlert /\ [][CreateAlert]_vars

\* The alerts of a run of the registry specification, and their scores.
MaxAlerts == 5

HistoryScoreValues == {39}

Moderators == {"moderator"}

CreateAlertSequential ==
    /\ Len(alerts) < MaxAlerts
    /\ \E user_id \in Users, scam_score \in HistoryScoreValues, id \in ClockIds :
          create_alert(user_id, scam_score, id)
    /\ UNCHANGED <<alert_task>>
    /\ UNCHANGED <<trust_vars, doc_vars, scam_vars, decay_vars, feature_vars>>
    /\ UNCHANGED <<limiter_vars, permission_vars, token_vars, service_vars>>

\* resolve_alert, with the id of an alert or an id no alert has
ResolveAlert ==
    /\ \E alert_id \in 1 .. LastId + 1, resolved_by \in Moderators :
          alerts' = resolve_alert(alerts, alert_id, resolved_by).alerts
    /\ UNCHANGED <<alert_counts, alert_task>>
    /\ UNCHANGED <<trust_vars, doc_vars, scam_vars, decay_vars, feature_vars>>
    /\ UNCHANGED <<limiter_vars, permission_vars, token_vars, service_vars>>

NextAlert == CreateAlertSequential \/ ResolveAlert

\* The registry used by one caller at a time.
SpecAlert == InitAlert /\ [][NextAlert]_vars

\* The create_alert calls of a run of the threaded specification.
MaxAlertCalls == 3

ThreadScoreValues == {39, 80}

AlertCallsStarted ==
    Len(alerts) + Cardinality({t \in AlertTasks : alert_task[t].pc = "read"})

\* create_alert, first statement: user_history = self.alert_counts.get(user_id, 0)
ReadHistory(t) ==
    /\ alert_task[t].pc = "idle"
    /\ AlertCallsStarted < MaxAlertCalls
    /\ \E user_id \in Users, scam_score \in ThreadScoreValues :
          alert_task' = [alert_task EXCEPT ![t] =
                            [pc |-> "read", user_id |-> user_id,
                             scam_score |-> scam_score,
                             user_history |-> alert_counts[user_id]]]
    /\ UNCHANGED <<alerts, alert_counts>>
    /\ UNCHANGED <<trust_vars, doc_vars, scam_vars, decay_vars, feature_vars>>
    /\ UNCHANGED <<limiter_vars, permission_vars, token_vars, service_vars>>

\* create_alert, up to self.alerts.append(alert)
StoreAlert(t) ==
    /\ alert_task[t].pc = "read"
    /\ \E id \in FreshIds :
          LET call == alert_task[t]
              alert == ScamAlert(id, severity(call.scam_score, call.user_history),
                                 call.user_id, call.scam_score, call.user_history)
          IN  alerts' = Append(alerts, alert)
    /\ alert_task' = [alert_task EXCEPT ![t].pc = "stored"]
    /\ UNCHANGED <<alert_counts>>
    /\ UNCHANGED <<trust_vars, doc_vars, scam_vars, decay_vars, feature_vars>>
    /\ UNCHANGED <<limiter_vars, permission_vars, token_vars, service_vars>>

\* create_alert, from self.alert_counts[user_id] = user_history + 1 to the return
CountAlert(t) ==
    /\ alert_task[t].pc = "stored"
    /\ alert_counts' = [alert_counts EXCEPT ![alert_task[t].user_id] =
                           alert_task[t].user_history + 1]
    /\ alert_task' = [alert_task EXCEPT ![t] = NoAlertTask]
    /\ UNCHANGED <<alerts>>
    /\ UNCHANGED <<trust_vars, doc_vars, scam_vars, decay_vars, feature_vars>>
    /\ UNCHANGED <<limiter_vars, permission_vars, token_vars, service_vars>>

NextAlertThreads ==
    \E t \in AlertTasks :
        \/ ReadHistory(t)
        \/ StoreAlert(t)
        \/ CountAlert(t)

\* create_alert called from several threads: the method takes no lock, so
\* the threads interleave between its statements.
SpecAlertThreads == InitAlert /\ [][NextAlertThreads]_vars

(***************************************************************************)
(* Roles and permissions: app/core/permissions.py                          *)
(***************************************************************************)

\* UserRole
UserRole ==
    {"student", "job_seeker", "agent", "institution", "service_provider",
     "admin", "moderator"}

\* list(Permission): the members of the enum, in definition order
Permission ==
    <<"view_profile", "edit_profile", "delete_account",
      "submit_verification", "view_verification_status",
      "send_message", "view_chat_history",
      "submit_review", "view_reviews",
      "list_services", "create_service", "manage_services",
      "manage_users", "manage_verifications", "view_analytics",
      "manage_system", "ban_user",
      "process_payment", "view_transactions">>

Range(list) == {list[i] : i \in 1 .. Len(list)}

StudentPermissions ==
    <<"view_profile", "edit_profile", "submit_verification",
      "view_verification_status", "send_message", "view_chat_history",
      "submit_review", "view_reviews", "list_services">>

ProviderPermissions ==
    <<"view_profile", "edit_profile", "submit_verification",
      "view_verification_status", "send_message", "view_chat_history",
      "view_reviews", "list_services", "create_service", "manage_services",
      "process_payment", "view_transactions">>

ModeratorPermissions ==
    <<"view_profile", "manage_users", "manage_verifications", "view_reviews",
      "ban_user">>

mutant_role_permissions_agent_bans ==
    [role \in UserRole |->
        CASE role \in {"student", "job_seeker"} -> StudentPermissions
          [] role = "agent" -> Append(ProviderPermissions, "ban_user")
          [] role \in {"institution", "service_provider"} -> ProviderPermissions
          [] role = "moderator" -> ModeratorPermissions
          [] role = "admin" -> Permission]

ROLE_PERMISSIONS ==
    [role \in UserRole |->
        CASE role \in {"student", "job_seeker"} -> StudentPermissions
          [] role \in {"agent", "institution", "service_provider"} -> ProviderPermissions
          [] role = "moderator" -> ModeratorPermissions
          [] role = "admin" -> Permission]

\* ROLE_PERMISSIONS.get(role, [])
get_role_permissions(role) ==
    IF role \in DOMAIN ROLE_PERMISSIONS THEN ROLE_PERMISSIONS[role] ELSE <<>>

has_permission(role, permission) ==
    permission \in Range(get_role_permissions(role))

\* The roles asked about: the enum's members and a value that is none of them.
RoleValues == UserRole \cup {"guest"}

PermissionCalls ==
    {Call("has_permission", a) :
        a \in [role : RoleValues, permission : Range(Permission)]}
    \cup
    {Call("get_role_permissions", a) : a \in [role : RoleValues]}

PermissionPending(op) == permission_call.op = op /\ ~permission_call.done

HasPermission ==
    /\ PermissionPending("has_permission")
    /\ LET a == permission_call.args
       IN  permission_call' = Answer(permission_call, has_permission(a.role, a.permission))
    /\ UNCHANGED <<trust_vars, doc_vars, scam_vars, decay_vars, feature_vars>>
    /\ UNCHANGED <<limiter_vars, alert_vars, token_vars, service_vars>>

GetRolePermissions ==
    /\ PermissionPending("get_role_permissions")
    /\ permission_call' = Answer(permission_call,
                                 get_role_permissions(permission_call.args.role))
    /\ UNCHANGED <<trust_vars, doc_vars, scam_vars, decay_vars, feature_vars>>
    /\ UNCHANGED <<limiter_vars, alert_vars, token_vars, service_vars>>

InitPermission ==
    /\ permission_call \in PermissionCalls
    /\ TrustIdle /\ DocIdle /\ ScamIdle /\ DecayIdle /\ FeatureIdle
    /\ LimiterIdle /\ AlertIdle /\ TokenIdle /\ ServiceIdle

NextPermission == HasPermission \/ GetRolePermissions

\* One permission query.
SpecPermission == InitPermission /\ [][NextPermission]_vars

(***************************************************************************)
(* Tokens: app/core/security.py, app/api/auth/__init__.py and              *)
(* app/dependencies.py.  Times are in minutes.  A JWT is its payload, the  *)
(* key it is signed with and whether it is a well-formed JWT at all;       *)
(* jwt.decode checks the form, the signature and the exp claim.  A payload *)
(* has the claims sub, purpose (None when absent), exp and type.           *)
(***************************************************************************)

\* settings.SECRET_KEY
SECRET_KEY == "settings.SECRET_KEY"

\* settings.ACCESS_TOKEN_EXPIRE_MINUTES
ACCESS_TOKEN_EXPIRE_MINUTES == 30

\* settings.REFRESH_TOKEN_EXPIRE_DAYS
REFRESH_TOKEN_EXPIRE_DAYS == 7

MinutesPerDay == 1440

MinutesPerHour == 60

jwt_encode(to_encode, key) == [payload |-> to_encode, key |-> key, well_formed |-> TRUE]

\* expires_delta is 0 for None (a timedelta of zero counts as None too).
create_access_token(data, expires_delta, now) ==
    LET expire == IF expires_delta # 0 THEN now + expires_delta
                  ELSE now + ACCESS_TOKEN_EXPIRE_MINUTES
    IN  jwt_encode([sub |-> data.sub, purpose |-> data.purpose,
                    exp |-> expire, type |-> "access"], SECRET_KEY)

create_refresh_token(data, expires_delta, now) ==
    LET expire == IF expires_delta # 0 THEN now + expires_delta
                  ELSE now + REFRESH_TOKEN_EXPIRE_DAYS * MinutesPerDay
    IN  jwt_encode([sub |-> data.sub, purpose |-> data.purpose,
                    exp |-> expire, type |-> "refresh"], SECRET_KEY)

\* What verify_token returns for a token jwt.decode raises JWTError on.
NoPayload == [sub |-> "None", purpose |-> "None", exp |-> 0, type |-> "None"]

\* jwt.decode raises for a token that is not a JWT, for a signature made
\* with another key and for an exp that has passed.
verify_token(token, now) ==
    IF token.well_formed /\ token.key = SECRET_KEY /\ ~(token.payload.exp < now)
    THEN token.payload
    ELSE NoPayload

\* POST /refresh: the status, and the access token of the response
refresh_token(token, now) ==
    LET payload == verify_token(token, now)
    IN  IF payload = NoPayload \/ payload.type # "refresh"
        THEN [status |-> 401, issued |-> {}]
        ELSE [status |-> 200,
              issued |-> {create_access_token([sub |-> payload.sub, purpose |-> "None"],
                                               0, now)}]

\* POST /reset-password
reset_password(token, now) ==
    LET payload == verify_token(token, now)
    IN  IF payload = NoPayload \/ payload.purpose # "password_reset"
        THEN [status |-> 400, issued |-> {}]
        ELSE [status |-> 200, issued |-> {}]

\* POST /verify-email
verify_email(token, now) ==
    LET payload == verify_token(token, now)
    IN  IF payload = NoPayload \/ payload.purpose # "email_verification"
        THEN [status |-> 400, issued |-> {}]
        ELSE [status |-> 200, issued |-> {}]

\* get_current_user: 401, or 200 with the user; every token issued has a sub
get_current_user(token, now) ==
    LET payload == verify_token(token, now)
    IN  IF payload = NoPayload
        THEN [status |-> 401, issued |-> {}]
        ELSE [status |-> 200, issued |-> {}]

\* The tokens issued in a run.
MaxTokens == 3

\* The times at which something happens: the lifetimes of the four kinds
\* of token, and a minute after each.
TokenTimes == {0, 30, 31, 60, 61, 1440, 1441, 10080, 10081}

\* Tokens nobody issued: a JWT signed with another key, and a string that is
\* no JWT.
ForgedTokens ==
    {jwt_encode([sub |-> "user_id", purpose |-> "None", exp |-> 20000,
                 type |-> "access"], "another key"),
     [payload |-> NoPayload, key |-> "None", well_formed |-> FALSE]}

\* POST /login and /admin/login: an access token and a refresh token
Login ==
    /\ Cardinality(tokens) + 2 <= MaxTokens
    /\ tokens' = tokens \cup
          {create_access_token([sub |-> "user_id", purpose |-> "None"], 0, token_now),
           create_refresh_token([sub |-> "user_id", purpose |-> "None"], 0, token_now)}
    /\ UNCHANGED <<token_now, presented>>
    /\ UNCHANGED <<trust_vars, doc_vars, scam_vars, decay_vars, feature_vars>>
    /\ UNCHANGED <<limiter_vars, alert_vars, permission_vars, service_vars>>

\* POST /register: the verification token mailed to the user
Register ==
    /\ Cardinality(tokens) < MaxTokens
    /\ tokens' = tokens \cup
          {create_access_token([sub |-> "new_user_id", purpose |-> "email_verification"],
                               24 * MinutesPerHour, token_now)}
    /\ UNCHANGED <<token_now, presented>>
    /\ UNCHANGED <<trust_vars, doc_vars, scam_vars, decay_vars, feature_vars>>
    /\ UNCHANGED <<limiter_vars, alert_vars, permission_vars, service_vars>>

\* POST /forgot-password: the reset token mailed to the user
ForgotPassword ==
    /\ Cardinality(tokens) < MaxTokens
    /\ tokens' = tokens \cup
          {create_access_token([sub |-> "user@example.com", purpose |-> "password_reset"],
                               1 * MinutesPerHour, token_now)}
    /\ UNCHANGED <<token_now, presented>>
    /\ UNCHANGED <<trust_vars, doc_vars, scam_vars, decay_vars, feature_vars>>
    /\ UNCHANGED <<limiter_vars, alert_vars, permission_vars, service_vars>>

\* A token is presented to an endpoint, which answers.
Present(operation, token, answer) ==
    /\ presented' = [operation |-> operation, token |-> token, at |-> token_now,
                     accepted |-> answer.status = 200]
    /\ tokens' = tokens \cup answer.issued
    /\ UNCHANGED <<token_now>>
    /\ UNCHANGED <<trust_vars, doc_vars, scam_vars, decay_vars, feature_vars>>
    /\ UNCHANGED <<limiter_vars, alert_vars, permission_vars, service_vars>>

RefreshToken ==
    /\ Cardinality(tokens) < MaxTokens
    /\ \E token \in tokens \cup ForgedTokens :
          Present("refresh_token", token, refresh_token(token, token_now))

ResetPassword ==
    \E token \in tokens \cup ForgedTokens :
        Present("reset_password", token, reset_password(token, token_now))

VerifyEmail ==
    \E token \in tokens \cup ForgedTokens :
        Present("verify_email", token, verify_email(token, token_now))

GetCurrentUser ==
    \E token \in tokens \cup ForgedTokens :
        Present("get_current_user", token, get_current_user(token, token_now))

\* Time passes.
TokenTick ==
    /\ \E later \in TokenTimes : later > token_now /\ token_now' = later
    /\ UNCHANGED <<tokens, presented>>
    /\ UNCHANGED <<trust_vars, doc_vars, scam_vars, decay_vars, feature_vars>>
    /\ UNCHANGED <<limiter_vars, alert_vars, permission_vars, service_vars>>

InitToken ==
    /\ TokenIdle
    /\ TrustIdle /\ DocIdle /\ ScamIdle /\ DecayIdle /\ FeatureIdle
    /\ LimiterIdle /\ AlertIdle /\ PermissionIdle /\ ServiceIdle

NextToken ==
    \/ Login
    \/ Register
    \/ ForgotPassword
    \/ RefreshToken
    \/ ResetPassword
    \/ VerifyEmail
    \/ GetCurrentUser
    \/ TokenTick

\* The token endpoints and bearer authentication.
SpecToken == InitToken /\ [][NextToken]_vars

(***************************************************************************)
(* Document service: DocumentService.verify_document,                      *)
(* app/services/document_service.py.  Confidence scores are counted in     *)
(* hundredths.  An analysis result is a dict: a key it lacks is read with   *)
(* the default of analysis_result.get.                                     *)
(***************************************************************************)

\* DocumentStatus
DocumentStatus == {"pending", "under_review", "verified", "rejected", "expired"}

mutant_verify_document_ignores_manual_review(analysis_result, manual_review) ==
    LET confidence == IF "confidence_score" \in DOMAIN analysis_result
                      THEN analysis_result.confidence_score ELSE 0
        forgery_detected == IF "forgery_detected" \in DOMAIN analysis_result
                            THEN analysis_result.forgery_detected ELSE FALSE
    IN  IF forgery_detected THEN "rejected"
        ELSE IF confidence >= 90 THEN "verified"
        ELSE IF confidence >= 70 THEN "under_review"
        ELSE "pending"

verify_document(analysis_result, manual_review) ==
    LET confidence == IF "confidence_score" \in DOMAIN analysis_result
                      THEN analysis_result.confidence_score ELSE 0
        forgery_detected == IF "forgery_detected" \in DOMAIN analysis_result
                            THEN analysis_result.forgery_detected ELSE FALSE
    IN  IF forgery_detected THEN "rejected"
        ELSE IF confidence >= 90 /\ ~manual_review THEN "verified"
        ELSE IF confidence >= 70 THEN "under_review"
        ELSE "pending"

\* Confidence scores on both sides of 0.7 and 0.9, and outside 0 .. 1.
AnalysisConfidenceValues == {-10, 0, 50, 69, 70, 71, 89, 90, 91, 100, 150}

AnalysisResults ==
    [document_id : {"doc_1"}, confidence_score : AnalysisConfidenceValues,
     forgery_detected : BOOLEAN]
    \cup [document_id : {"doc_1"}, confidence_score : AnalysisConfidenceValues]
    \cup [document_id : {"doc_1"}, forgery_detected : BOOLEAN]
    \cup [document_id : {"doc_1"}]

ServiceCalls ==
    {Call("verify_document", a) :
        a \in [analysis_result : AnalysisResults, manual_review : BOOLEAN]}

VerifyDocument ==
    /\ service_call.op = "verify_document"
    /\ ~service_call.done
    /\ service_call' = Answer(service_call,
                              verify_document(service_call.args.analysis_result,
                                              service_call.args.manual_review))
    /\ UNCHANGED <<trust_vars, doc_vars, scam_vars, decay_vars, feature_vars>>
    /\ UNCHANGED <<limiter_vars, alert_vars, permission_vars, token_vars>>

InitService ==
    /\ service_call \in ServiceCalls
    /\ TrustIdle /\ DocIdle /\ ScamIdle /\ DecayIdle /\ FeatureIdle
    /\ LimiterIdle /\ AlertIdle /\ PermissionIdle /\ TokenIdle

NextService == VerifyDocument

\* One call of verify_document.
SpecService == InitService /\ [][NextService]_vars

(***************************************************************************)
(* The backend as a whole: one call to, or one run of, any of its parts.   *)
(***************************************************************************)

Init ==
    \/ InitTrust \/ InitDocSpec \/ InitScam \/ InitDecay \/ InitFeature \/ InitLimiter
    \/ InitAlert \/ InitPermission \/ InitToken \/ InitService

Next ==
    \/ NextTrust \/ NextDoc \/ NextScam \/ NextDecay \/ NextFeature \/ NextLimiter
    \/ NextAlert \/ NextPermission \/ NextToken \/ NextService

Spec == Init /\ [][Next]_vars

(***************************************************************************)
(* Properties of the trust score engine                                    *)
(***************************************************************************)

TrustDone(op) == trust_call.op = op /\ trust_call.done

ComponentNames ==
    {"verification_score", "transaction_score", "review_score", "activity_score",
     "behavior_score"}

ValidComponentScores(a) == \A c \in ComponentNames : a[c] >= 0 /\ a[c] <= 200

TotalOf(a) ==
    calculate_total_score(a.verification_score, a.transaction_score, a.review_score,
                          a.activity_score, a.behavior_score).total

\* C1: for any five component scores each in [0,200], calculate_total_score
\* returns a total in [0,1000].
C1_TotalScoreBounded ==
    (TrustDone("calculate_total_score") /\ ValidComponentScores(trust_call.args))
        => (trust_call.result.total >= 0 /\ trust_call.result.total <= 1000 * 100)

\* All five components at their maximum: the total is exactly 1000.
C1_Witness ==
    /\ TrustDone("calculate_total_score")
    /\ \A c \in ComponentNames : trust_call.args[c] = 200
    /\ trust_call.result.total = 1000 * 100

\* C2: for valid inputs (non-negative counts, ratios and rates in [0,1],
\* average rating in [0,5], verification level in 0..3) each of the five
\* component scorers returns a value in [0,200].
C2_ComponentScoresBounded ==
    LET a == trust_call.args
        r == trust_call.result
    IN  /\ (/\ TrustDone("calculate_verification_score")
            /\ a.verification_level \in 0 .. 3
            /\ a.documents_verified >= 0)
               => (r >= 0 /\ r <= 200)
        /\ (/\ TrustDone("calculate_transaction_score")
            /\ a.successful_transactions >= 0
            /\ a.failed_transactions >= 0
            /\ a.total_value >= 0
            /\ a.dispute_rate >= 0 /\ a.dispute_rate <= 1000)
               => (r >= 0 /\ r <= 200)
        /\ (/\ TrustDone("calculate_review_score")
            /\ a.total_reviews >= 0
            /\ a.verified_reviews >= 0
            /\ a.average_rating >= 0 /\ a.average_rating <= 50)
               => (r.den > 0 /\ r.num >= 0 /\ r.num <= 200 * r.den)
        /\ (/\ TrustDone("calculate_activity_score")
            /\ a.days_active >= 0
            /\ a.login_frequency >= 0
            /\ a.profile_completeness >= 0 /\ a.profile_completeness <= 100
            /\ a.response_rate >= 0 /\ a.response_rate <= 100)
               => (r >= 0 /\ r <= 200 * 100)
        /\ (/\ TrustDone("calculate_behavior_score")
            /\ a.reported_count >= 0
            /\ a.scam_flags >= 0
            /\ a.positive_interactions >= 0
            /\ a.community_contributions >= 0)
               => (r >= 0 /\ r <= 200)

\* A user reported seven times with nothing in their favour: 100 - 105 is
\* raised to the floor 0.
C2_Witness ==
    /\ TrustDone("calculate_behavior_score")
    /\ trust_call.args.reported_count = 7
    /\ trust_call.args.scam_flags = 0
    /\ trust_call.args.positive_interactions = 0
    /\ trust_call.args.community_contributions = 0
    /\ trust_call.result = 0

\* C3: calculate_total_score is monotonic in each component: of two calls
\* that differ in one component score only, the one with the larger component
\* score returns a total at least as large.
C3_TotalScoreMonotonic ==
    TrustDone("calculate_total_score") =>
        \A c \in ComponentNames, v \in ComponentScoreValues :
            v >= trust_call.args[c] =>
                TotalOf([trust_call.args EXCEPT ![c] = v]) >= trust_call.result.total

\* A call whose total rises strictly when one component is raised.
C3_Witness ==
    /\ TrustDone("calculate_total_score")
    /\ \E c \in ComponentNames, v \in ComponentScoreValues :
          /\ v > trust_call.args[c]
          /\ TotalOf([trust_call.args EXCEPT ![c] = v]) > trust_call.result.total

LevelNames == {TrustLevel[i] : i \in 1 .. Len(TrustLevel)}

Rank(level) == CHOOSE i \in 1 .. Len(TrustLevel) : TrustLevel[i] = level

\* The levels whose threshold is at most score (score in hundredths).
Eligible(score) == {l \in LevelNames : LEVEL_THRESHOLDS[l] * 100 <= score}

\* C4: get_trust_level(s) is the highest level whose threshold is <= s, and
\* unverified when there is none; it is a non-decreasing step function of s;
\* 399 gives bronze and 400 gives silver.
C4_TrustLevelStepFunction ==
    TrustDone("get_trust_level") =>
        LET s == trust_call.args.score
            level == trust_call.result
        IN  /\ Eligible(s) = {} => level = "unverified"
            /\ Eligible(s) # {} =>
                  /\ level \in Eligible(s)
                  /\ \A l \in Eligible(s) : LEVEL_THRESHOLDS[l] <= LEVEL_THRESHOLDS[level]
            /\ \A s2 \in TrustScoreValues :
                  s <= s2 => Rank(level) <= Rank(get_trust_level(s2))
            /\ s = 399 * 100 => level = "bronze"
            /\ s = 400 * 100 => level = "silver"

\* The score 399 has been given the level bronze.
C4_Witness ==
    /\ TrustDone("get_trust_level")
    /\ trust_call.args.score = 399 * 100
    /\ trust_call.result = "bronze"

\* C5: the breakdown is {0.25 v, 0.25 t, 0.20 r, 0.15 a, 0.15 b} and the total
\* is min(5 * (sum of the breakdown), 1000); (150,100,80,60,100) gives
\* {37.5, 25, 16, 9, 15} and 512.5.
C5_TotalScoreFormula ==
    TrustDone("calculate_total_score") =>
        LET a == trust_call.args
            bd == trust_call.result.breakdown
            sum == bd.verification + bd.transactions + bd.reviews + bd.activity + bd.behavior
        IN  /\ 4 * bd.verification = 100 * a.verification_score
            /\ 4 * bd.transactions = 100 * a.transaction_score
            /\ 5 * bd.reviews = 100 * a.review_score
            /\ 20 * bd.activity = 3 * 100 * a.activity_score
            /\ 20 * bd.behavior = 3 * 100 * a.behavior_score
            /\ trust_call.result.total = (IF 5 * sum < 100000 THEN 5 * sum ELSE 100000)
            /\ (a = [verification_score |-> 150, transaction_score |-> 100,
                     review_score |-> 80, activity_score |-> 60, behavior_score |-> 100])
                  => /\ bd = [verification |-> 3750, transactions |-> 2500, reviews |-> 1600,
                              activity |-> 900, behavior |-> 1500]
                     /\ trust_call.result.total = 51250

\* The scenario (150,100,80,60,100) has been computed: total 512.5.
C5_Witness ==
    /\ TrustDone("calculate_total_score")
    /\ trust_call.args = [verification_score |-> 150, transaction_score |-> 100,
                          review_score |-> 80, activity_score |-> 60, behavior_score |-> 100]
    /\ trust_call.result.total = 51250

(***************************************************************************)
(* Properties of the document verification scorer                          *)
(***************************************************************************)

DocDone(op) == doc_call.op = op /\ doc_call.done

\* A decision has been made for one document.
DecisionMade == DocDone("_make_decision") \/ DocDone("calculate_score")

DecisionOf(call) == IF call.op = "_make_decision" THEN call.result ELSE call.result.decision

ScoreOf(call) ==
    IF call.op = "_make_decision" THEN call.args.score ELSE call.result.overall_score

\* C6: whenever the forgery result has forgery_detected = true the decision is
\* reject, for every overall score and every setting of the thresholds.
C6_ForgeryAlwaysRejected ==
    (DecisionMade /\ doc_call.args.forgery_result.forgery_detected)
        => DecisionOf(doc_call) = "reject"

\* A forged document with a perfect score, high enough for auto-approval under
\* every threshold setting, has been rejected.
C6_Witness ==
    /\ DecisionMade
    /\ doc_call.args.forgery_result.forgery_detected
    /\ ScoreOf(doc_call) = Frac(1, 1)
    /\ DecisionOf(doc_call) = "reject"

\* The per-type policy (A, R) of the claim, in thousandths.
PolicyApprove(document_type) ==
    IF document_type \in {"passport", "cnic", "bank_statement"} THEN 980
    ELSE IF document_type \in {"degree", "experience_letter"} THEN 920
    ELSE 900

PolicyReject(document_type) ==
    IF document_type \in {"passport", "cnic", "bank_statement"} THEN 400
    ELSE IF document_type \in {"degree", "experience_letter"} THEN 350
    ELSE 300

\* C7: for a document of type T with no forgery detected the decision is
\* approve iff score >= A(T), reject iff score < R(T) and review otherwise,
\* with (A, R) = (0.98, 0.40) for passport, cnic and bank_statement,
\* (0.92, 0.35) for degree and experience_letter, (0.90, 0.30) for every
\* other type.
C7_DecisionByDocumentType ==
    (DecisionMade /\ ~doc_call.args.forgery_result.forgery_detected) =>
        LET T == doc_call.args.document_type
            score == ScoreOf(doc_call)
            decision == DecisionOf(doc_call)
        IN  /\ decision \in {"approve", "reject", "review"}
            /\ decision = "approve" <=> FracGeqThousandths(score, PolicyApprove(T))
            /\ decision = "reject" <=> ~FracGeqThousandths(score, PolicyReject(T))

DecisionRank(decision) ==
    CASE decision = "approve" -> 0
      [] decision = "review" -> 1
      [] decision = "reject" -> 2

IndexPermutations(n) == {f \in [1 .. n -> 1 .. n] : \A i \in 1 .. n : \E j \in 1 .. n : f[j] = i}

C9_OverallScoreWeightedAverage ==
    DocDone("calculate_score") =>
        LET a == doc_call.args
            cs == doc_call.result.component_scores
            overall == doc_call.result.overall_score
            cross == "cross_reference" \in DOMAIN cs
            three == FracAdd(FracMul(cs["ocr_quality"], Frac(1, 5)),
                             FracAdd(FracMul(cs["authenticity"], Frac(2, 5)),
                                     FracMul(cs["validation"], Frac(1, 4))))
        IN  /\ cross <=> a.cross_reference.kind \in {"match_score", "no_match_score"}
            /\ ~cross => overall = FracDiv(three, Frac(17, 20))
            /\ cross => overall = FracAdd(three, FracMul(cs["cross_reference"], Frac(3, 20)))
            /\ (/\ a.ocr_result.confidence \in 0 .. 100
                /\ a.forgery_result.confidence \in 0 .. 100
                /\ a.cross_reference.match_score \in 0 .. 100)
                   => (overall.num >= 0 /\ overall.num <= overall.den)

\* No cross-reference: OCR 1.0, authenticity 0.85 and validation 1.0 average
\* to 0.79 / 0.85 = 79/85.
C9_Witness ==
    /\ DocDone("calculate_score")
    /\ doc_call.args.cross_reference.kind = "none"
    /\ doc_call.args.forgery_result.confidence = 15
    /\ doc_call.result.overall_score = [num |-> 79, den |-> 85]

(***************************************************************************)
(* Properties of the scam language analysis                                *)
(***************************************************************************)

ScamDone == scam_call.op = "calculate_scam_score" /\ scam_call.done

\* The category weights of the claim, in tenths.
ClaimedWeight(category) ==
    CASE category = "urgency" -> 10
      [] category = "false_guarantee" -> 15
      [] category = "suspicious_payment" -> 20
      [] category = "too_good" -> 15
      [] category = "pressure" -> 10
      [] category = "secrecy" -> 15
      [] category = "impersonation" -> 12

\* min(hits * weight * 0.1, 0.3) in thousandths, 0 for a category without hits.
ClaimedContribution(found, category) ==
    IF found[category] = 0 THEN 0
    ELSE IF found[category] * ClaimedWeight(category) * 10 < 300
         THEN found[category] * ClaimedWeight(category) * 10
         ELSE 300

ClaimedSum(found) ==
    ClaimedContribution(found, "urgency") + ClaimedContribution(found, "false_guarantee")
        + ClaimedContribution(found, "suspicious_payment")
        + ClaimedContribution(found, "too_good") + ClaimedContribution(found, "pressure")
        + ClaimedContribution(found, "secrecy") + ClaimedContribution(found, "impersonation")

\* C10: the score is min(sum over the categories with at least one hit of
\* min(hits * weight * 0.1, 0.3), 1.0); it lies in [0,1]; the reasons hold
\* exactly one record per category with at least one hit; no hits give
\* (0.0, empty list).
C10_ScamScoreFormula ==
    ScamDone =>
        LET found == scam_call.args.found
            r == scam_call.result
            hit == {c \in CategoryNames : found[c] >= 1}
        IN  /\ r.score = (IF ClaimedSum(found) < 1000 THEN ClaimedSum(found) ELSE 1000)
            /\ r.score >= 0 /\ r.score <= 1000
            /\ Len(r.reasons) = Cardinality(hit)
            /\ \A c \in hit :
                  \E j \in 1 .. Len(r.reasons) :
                      /\ r.reasons[j].category = c
                      /\ Len(r.reasons[j].hits) = found[c]
                      /\ r.reasons[j].contribution = ClaimedContribution(found, c)
            /\ hit = {} => (r.score = 0 /\ r.reasons = <<>>)

\* Three hits in every category: seven capped contributions of 0.3 sum to 2.1
\* and the score is cut to 1.0.
C10_Witness ==
    /\ ScamDone
    /\ \A c \in CategoryNames : scam_call.args.found[c] = 3
    /\ scam_call.result.score = 1000
    /\ Len(scam_call.result.reasons) = 7


(***************************************************************************)
(* Properties of the trust score decay                                     *)
(***************************************************************************)

DecayDone(op) == decay_call.op = op /\ decay_call.done

\* The whole days between last_activity and now of an inactivity call.
DaysInactive == TimedeltaDays(decay_call.args.now - decay_call.args.last_activity)

\* C11: calculate_inactivity_decay returns (0.0, None) whenever the number of
\* whole days between last_activity and now is at most 30, whatever the
\* current score is.
C11_NoDecayWithinThreshold ==
    (DecayDone("calculate_inactivity_decay") /\ DaysInactive <= 30)
        => /\ decay_call.result.decay_amount = 0
           /\ decay_call.result.reason = None

\* An account last active exactly 30 days (and 23 hours) ago was asked about.
C11_Witness ==
    /\ DecayDone("calculate_inactivity_decay")
    /\ DaysInactive = 30
    /\ decay_call.args.now - decay_call.args.last_activity = 743
    /\ decay_call.args.current_score = 500
    /\ decay_call.result.decay_amount = 0

\* C12: after more than 30 days of inactivity and for a positive score the
\* decay is strictly positive and at most 0.30 of the current score, however
\* long the inactivity lasts.
C12_InactivityDecayPositiveAndCapped ==
    (/\ DecayDone("calculate_inactivity_decay")
     /\ DaysInactive > 30
     /\ decay_call.args.current_score > 0)
        => /\ decay_call.result.decay_amount > 0
           /\ decay_call.result.decay_amount <= 300000 * decay_call.args.current_score

\* An account inactive for 1000 days lost exactly 0.30 of its 1000 points.
C12_Witness ==
    /\ DecayDone("calculate_inactivity_decay")
    /\ DaysInactive = 1000
    /\ decay_call.args.current_score = 1000
    /\ decay_call.result.decay_amount = 300000 * 1000

\* Non-negative scores and event counts were handed to calculate_recovery.
RecoveryInputsNonNegative ==
    /\ decay_call.args.current_score >= 0 /\ decay_call.args.base_score >= 0
    /\ decay_call.args.positive_events >= 0 /\ decay_call.args.active_weeks >= 0

\* C13 as stated: for non-negative scores and event counts the recovery is
\* at most base_score - current_score and at most 0.10 of base_score, so
\* that current_score + recovery never exceeds base_score; it is 0 when
\* current_score >= base_score.
C13_RecoveryNeverExceedsGap ==
    LET a == decay_call.args
        recovery == decay_call.result.recovery
    IN  (DecayDone("calculate_recovery") /\ RecoveryInputsNonNegative)
            => /\ recovery <= (a.base_score - a.current_score) * 100
               /\ recovery <= 10 * a.base_score
               /\ a.current_score * 100 + recovery <= a.base_score * 100
               /\ a.current_score >= a.base_score => recovery = 0

\* C13, amended: for non-negative scores and event counts the recovery is 0
\* when current_score >= base_score; when current_score < base_score it is
\* non-negative, at most base_score - current_score and at most 0.10 of
\* base_score, so that current_score + recovery does not exceed base_score.
C13_RecoveryBounded ==
    LET a == decay_call.args
        recovery == decay_call.result.recovery
    IN  (DecayDone("calculate_recovery") /\ RecoveryInputsNonNegative)
            => /\ a.current_score >= a.base_score => recovery = 0
               /\ a.current_score < a.base_score =>
                    /\ 0 <= recovery
                    /\ recovery <= (a.base_score - a.current_score) * 100
                    /\ recovery <= 10 * a.base_score
                    /\ a.current_score * 100 + recovery <= a.base_score * 100

\* A score 10 points under its base of 500 recovered those 10 points, the
\* events being worth the full 0.10 of the base.
C13_Witness ==
    /\ DecayDone("calculate_recovery")
    /\ decay_call.args.current_score = 490 /\ decay_call.args.base_score = 500
    /\ decay_call.args.positive_events = 20 /\ decay_call.args.active_weeks = 5
    /\ decay_call.result.recovery = 1000

\* The rate of a reason as the documentation gives it, in hundredths.
ClaimedRate(reason) ==
    IF reason = "negative_review" THEN 2
    ELSE IF reason = "report_received" THEN 5
    ELSE IF reason = "subscription_lapse" THEN 15
    ELSE IF reason = "failed_verification" THEN 10
    ELSE 5

\* C14: apply_event_decay returns max(0, current - current * rate * severity)
\* with the rate of the reason (0.05 for a reason without a rate of its
\* own); for current >= 0 and severity >= 0 the new score is within
\* [0, current].
C14_EventDecayFormula ==
    LET a == decay_call.args
        r == decay_call.result
        decayed == a.current_score * 1000 - a.current_score * ClaimedRate(a.reason) * a.severity
    IN  DecayDone("apply_event_decay")
            => /\ r.new_score = (IF decayed >= 0 THEN decayed ELSE 0)
               /\ (a.current_score >= 0 /\ a.severity >= 0)
                     => (0 <= r.new_score /\ r.new_score <= a.current_score * 1000)

\* A lapsed subscription of severity 7.0 took more than the whole score: the
\* new score is 0.
C14_Witness ==
    /\ DecayDone("apply_event_decay")
    /\ decay_call.args.reason = "subscription_lapse"
    /\ decay_call.args.current_score = 500
    /\ decay_call.args.severity = 70
    /\ decay_call.result.new_score = 0
    /\ decay_call.result.decay_amount = 525000


(***************************************************************************)
(* Properties of the component scorers                                     *)
(***************************************************************************)

\* C17 as stated: for any numeric inputs, out-of-range ones included, the
\* value each of the five component scorers returns is within [0,200].
C17_ComponentScorersClampOutput ==
    LET r == trust_call.result
    IN  /\ TrustDone("calculate_verification_score") => (r >= 0 /\ r <= 200)
        /\ TrustDone("calculate_transaction_score") => (r >= 0 /\ r <= 200)
        /\ TrustDone("calculate_review_score") => (r.num >= 0 /\ r.num <= 200 * r.den)
        /\ TrustDone("calculate_activity_score") => (r >= 0 /\ r <= 200 * 100)
        /\ TrustDone("calculate_behavior_score") => (r >= 0 /\ r <= 200)

\* The base score of a verification level as the documentation gives it.
ClaimedBase(level) ==
    IF level = 1 THEN 50 ELSE IF level = 2 THEN 100 ELSE IF level = 3 THEN 150 ELSE 0

\* C18: calculate_verification_score(level, docs, identity) returns
\* min(200, base(level) + min(docs * 10, 30) + (20 if identity else 0)) with
\* base 0/50/100/150 for level 0/1/2/3 and 0 for any other level;
\* (0, 0, False) gives 0 and (3, 5, True) gives exactly 200.
C18_VerificationScoreFormula ==
    LET a == trust_call.args
        r == trust_call.result
        bonus == IF a.documents_verified * 10 <= 30 THEN a.documents_verified * 10 ELSE 30
        sum == ClaimedBase(a.verification_level) + bonus
                 + (IF a.identity_confirmed THEN 20 ELSE 0)
    IN  TrustDone("calculate_verification_score")
            => /\ r = (IF sum <= 200 THEN sum ELSE 200)
               /\ (a.verification_level = 0 /\ a.documents_verified = 0
                     /\ ~a.identity_confirmed) => r = 0
               /\ (a.verification_level = 3 /\ a.documents_verified = 5
                     /\ a.identity_confirmed) => r = 200

\* Level 3 with five documents and a confirmed identity scored 200.
C18_Witness ==
    /\ TrustDone("calculate_verification_score")
    /\ trust_call.args.verification_level = 3
    /\ trust_call.args.documents_verified = 5
    /\ trust_call.args.identity_confirmed
    /\ trust_call.result = 200

\* The transaction score as the documentation gives it.
ClaimedTransactionScore(successful, failed, total_value, dispute_rate) ==
    LET volume == IF successful * 5 <= 100 THEN successful * 5 ELSE 100
        value_bonus == IF total_value > 10000 THEN 30
                       ELSE IF total_value > 5000 THEN 20
                       ELSE IF total_value > 1000 THEN 10
                       ELSE 0
        dispute_penalty == IF dispute_rate > 100 THEN 50
                           ELSE IF dispute_rate > 50 THEN 25
                           ELSE 0
        sum == volume + value_bonus - failed * 10 - dispute_penalty
        capped == IF sum <= 200 THEN sum ELSE 200
    IN  IF capped >= 0 THEN capped ELSE 0

\* C19: calculate_transaction_score returns max(0, min(200, min(successful *
\* 5, 100) + value bonus - failed * 10 - dispute penalty)); a user with no
\* transactions scores 0; with the other inputs fixed, more failed
\* transactions or a higher dispute rate never raise the score; the score
\* never drops below 0.
C19_TransactionScoreFormula ==
    LET a == trust_call.args
        r == trust_call.result
    IN  TrustDone("calculate_transaction_score")
            => /\ r = ClaimedTransactionScore(a.successful_transactions,
                          a.failed_transactions, a.total_value, a.dispute_rate)
               /\ r >= 0
               /\ (a.successful_transactions = 0 /\ a.failed_transactions = 0
                     /\ a.total_value = 0 /\ a.dispute_rate = 0) => r = 0
               /\ \A failed \in FailedValues :
                     failed >= a.failed_transactions =>
                         calculate_transaction_score(a.successful_transactions, failed,
                             a.total_value, a.dispute_rate) <= r
               /\ \A dispute_rate \in DisputeRateValues :
                     dispute_rate >= a.dispute_rate =>
                         calculate_transaction_score(a.successful_transactions,
                             a.failed_transactions, a.total_value, dispute_rate) <= r

\* One successful and two failed transactions: 5 - 20 is floored to 0.
C19_Witness ==
    /\ TrustDone("calculate_transaction_score")
    /\ trust_call.args.successful_transactions = 1
    /\ trust_call.args.failed_transactions = 2
    /\ trust_call.args.total_value = 0
    /\ trust_call.args.dispute_rate = 0
    /\ trust_call.result = 0


(***************************************************************************)
(* Properties of repeated calls                                            *)
(***************************************************************************)

\* C15 as stated: a scorer called twice with identical inputs returns
\* identical outputs whatever runs in between; the decision calculate_score
\* of the shared confidence_scorer returns is not changed by an
\* adjust_thresholds call made for another document in between.
C15_RepeatedCallSameResult ==
    doc_repeat.done
        => /\ doc_repeat.args = doc_call.args
           /\ doc_repeat.result.decision = doc_call.result.decision
           /\ doc_repeat.result = doc_call.result


(***************************************************************************)
(* Properties of the ratios                                                *)
(***************************************************************************)

FeatureDone(op) == feature_call.op = op /\ feature_call.done

\* The value is a quotient that was computed: no division by zero.
Computed(value) == value.den > 0

\* C16: no scoring function fails with a division by zero.  With no review,
\* no OCR field, no transaction, no connection or no activity every ratio is
\* computed with a guarded divisor and a value is returned;
\* calculate_review_score(0, 0, 0) returns 0.
C16_NoDivisionByZero ==
    /\ TrustDone("calculate_review_score") =>
          /\ Computed(trust_call.result)
          /\ (/\ trust_call.args.total_reviews = 0
              /\ trust_call.args.average_rating = 0
              /\ trust_call.args.verified_reviews = 0) => trust_call.result.num = 0
    /\ DocDone("calculate_score") =>
          /\ \A k \in DOMAIN doc_call.result.component_scores :
                Computed(doc_call.result.component_scores[k])
          /\ Computed(doc_call.result.overall_score)
    /\ FeatureDone("extract_activity_features") =>
          IF Len(feature_call.args.activity_logs) = 0
          THEN feature_call.result.activity_count_24h = 0
          ELSE Computed(feature_call.result.activity_velocity)
    /\ FeatureDone("extract_transaction_features") =>
          /\ Computed(feature_call.result.successful_rate)
          /\ Computed(feature_call.result.avg_amount)
          /\ Computed(feature_call.result.transaction_velocity)
          /\ Len(feature_call.args.transactions) = 0 =>
                feature_call.result.successful_rate = Frac(0, 1)
    /\ FeatureDone("extract_network_features") =>
          /\ Computed(feature_call.result.avg_connection_trust)
          /\ IF Len(feature_call.args.connections) = 0
             THEN feature_call.result.connection_count = 0
             ELSE Computed(feature_call.result.verified_ratio)

\* An OCR result without any field was scored: field_ratio is 0 / 1 and the
\* OCR quality is 0.6 of the confidence 1.0.
C16_Witness ==
    /\ DocDone("calculate_score")
    /\ doc_call.args.ocr_result.fields = <<>>
    /\ doc_call.args.ocr_result.confidence = 100
    /\ doc_call.result.component_scores["ocr_quality"] = Frac(6, 10)


(***************************************************************************)
(* Properties of the rate limiter                                          *)
(***************************************************************************)

\* The requests of client_id that were allowed with a timestamp in the
\* window of period_seconds that starts at start.
AllowedInWindow(client_id, start) ==
    {i \in 1 .. Len(answered) :
        /\ answered[i].client_id = client_id
        /\ answered[i].is_allowed
        /\ start <= answered[i].now
        /\ answered[i].now < start + period_seconds}

\* The requests of client_id allowed before the i-th answer and inside the
\* window of period_seconds that ends with the i-th request.
RecordedInCurrentWindow(i) ==
    {j \in 1 .. i - 1 :
        /\ answered[j].client_id = answered[i].client_id
        /\ answered[j].is_allowed
        /\ answered[j].now > answered[i].now - period_seconds}

\* C20 as stated: for every client and under any interleaving of concurrent
\* is_allowed calls at most requests_per_period requests of the client are
\* allowed within any window of period_seconds; a request is denied exactly
\* when requests_per_period requests of the same client are already recorded
\* in the current window; requests of other clients do not count.
C20_RateLimitPerWindow ==
    /\ \A client_id \in Clients : \A start \in 0 .. MaxClock :
          Cardinality(AllowedInWindow(client_id, start)) <= requests_per_period
    /\ \A i \in 1 .. Len(answered) :
          ~answered[i].is_allowed
              <=> Cardinality(RecordedInCurrentWindow(i)) >= requests_per_period

(***************************************************************************)
(* Scam alerts                                                             *)
(***************************************************************************)

\* The alerts created before the i-th one for the same user.
EarlierAlerts(i) ==
    Cardinality({j \in 1 .. i - 1 : alerts[j].user_id = alerts[i].user_id})

ClaimedSeverity(scam_score, h) ==
    CASE scam_score >= 80 \/ h >= 3 -> "critical"
      [] ~(scam_score >= 80 \/ h >= 3) /\ (scam_score >= 60 \/ h >= 2) -> "high"
      [] ~(scam_score >= 80 \/ h >= 3) /\ ~(scam_score >= 60 \/ h >= 2)
            /\ scam_score >= 40 -> "medium"
      [] OTHER -> "low"

\* C21: every alert's severity is the one the score and the number h of
\* alerts created earlier for the same user give: critical for a score of
\* 0.8 or more or h >= 3, else high for 0.6 or more or h >= 2, else medium
\* for 0.4 or more, else low; the alerts of other users have no part in it.
C21_SeverityFromScoreAndHistory ==
    \A i \in 1 .. Len(alerts) :
        alerts[i].severity = ClaimedSeverity(alerts[i].scam_score, EarlierAlerts(i))

\* A third alert of a user, with a score under 0.4, is high although
\* another user's alert came before it.
C21_Witness ==
    \E i \in 1 .. Len(alerts) :
        /\ alerts[i].scam_score = 39
        /\ EarlierAlerts(i) = 2
        /\ alerts[i].severity = "high"
        /\ \E j \in 1 .. i - 1 : alerts[j].user_id # alerts[i].user_id

\* C26: an alert created for a user who already has three or more alerts
\* is critical, and should_auto_block is true for every user with five or
\* more alerts, whatever their scores and whether or not they are resolved.
C26_HistoryEscalatesToAutoBlock ==
    /\ \A i \in 1 .. Len(alerts) :
          EarlierAlerts(i) >= 3 => alerts[i].severity = "critical"
    /\ \A u \in Users :
          Cardinality(get_user_alerts(u, TRUE)) >= 5 =>
              \A days_since \in AlertAges : should_auto_block(u, days_since)

\* Five alerts of one user, each with a score under 0.4 and each resolved.
C26_Witness ==
    /\ Len(alerts) = 5
    /\ \A i \in 1 .. Len(alerts) :
          /\ alerts[i].user_id = "u1"
          /\ alerts[i].scam_score = 39
          /\ alerts[i].resolved
    /\ \A days_since \in AlertAges : should_auto_block("u1", days_since)

\* C27: alert_counts[u] is the number of alerts of u in the registry;
\* resolve_alert keeps every alert, its place and its severity, marks only
\* the alert it returns, which has the id asked for, and with an id no
\* alert has it returns None and leaves the registry as it is.
C27_CountsMatchRegistry ==
    /\ \A u \in Users :
          alert_counts[u] = Cardinality({i \in 1 .. Len(alerts) : alerts[i].user_id = u})
    /\ \A alert_id \in 0 .. LastId + 1, resolved_by \in Moderators :
          LET after == resolve_alert(alerts, alert_id, resolved_by)
          IN  /\ Len(after.alerts) = Len(alerts)
              /\ \A i \in 1 .. Len(alerts) :
                    /\ i # after.result => after.alerts[i] = alerts[i]
                    /\ [after.alerts[i] EXCEPT !.resolved = alerts[i].resolved,
                                               !.resolved_by = alerts[i].resolved_by]
                          = alerts[i]
              /\ after.result # 0 =>
                    /\ alerts[after.result].id = alert_id
                    /\ after.alerts[after.result].resolved
              /\ (\A i \in 1 .. Len(alerts) : alerts[i].id # alert_id) =>
                    /\ after.result = 0
                    /\ after.alerts = alerts

\* Alerts of both users, one of them resolved.
C27_Witness ==
    /\ alert_counts["u1"] = 2
    /\ alert_counts["u2"] = 1
    /\ \E i \in 1 .. Len(alerts) : alerts[i].resolved /\ alerts[i].user_id = "u2"
    /\ \E i \in 1 .. Len(alerts) : ~alerts[i].resolved

\* C22: once the create_alert calls made have all returned, no update is
\* lost: for each user the registry holds as many alerts as alert_counts
\* says, and their previous_alerts values are 0, 1, ..., n - 1.
C22_NoLostUpdate ==
    (\A t \in AlertTasks : alert_task[t].pc = "idle") =>
        \A u \in Users :
            LET mine == get_user_alerts(u, TRUE)
                n == Cardinality(mine)
            IN  /\ alert_counts[u] = n
                /\ {alerts[i].previous_alerts : i \in mine} = 0 .. n - 1

(***************************************************************************)
(* Roles and permissions                                                   *)
(***************************************************************************)

PermissionDone(op) == permission_call.op = op /\ permission_call.done

AdminPermissions ==
    {"manage_users", "manage_verifications", "view_analytics", "manage_system",
     "ban_user"}

\* C23: has_permission(role, p) answers whether p is in the role's list;
\* admin is granted every permission, student is granted view_profile and
\* refused manage_users, and no role but admin and moderator is granted
\* manage_users, manage_verifications, view_analytics, manage_system or
\* ban_user.
C23_RolePermissions ==
    /\ PermissionDone("has_permission") =>
          LET role == permission_call.args.role
              p == permission_call.args.permission
              granted == permission_call.result
          IN  /\ granted <=>
                    /\ role \in UserRole
                    /\ \E i \in 1 .. Len(ROLE_PERMISSIONS[role]) :
                          ROLE_PERMISSIONS[role][i] = p
              /\ role = "admin" => granted
              /\ (role = "student" /\ p = "view_profile") => granted
              /\ (role = "student" /\ p = "manage_users") => ~granted
              /\ (p \in AdminPermissions /\ role \notin {"admin", "moderator"}) =>
                    ~granted
    /\ PermissionDone("get_role_permissions") =>
          /\ permission_call.args.role = "admin" =>
                Range(permission_call.result) = Range(Permission)
          /\ permission_call.args.role \notin {"admin", "moderator"} =>
                Range(permission_call.result) \cap AdminPermissions = {}

\* An agent asking for ban_user has been refused.
C23_Witness ==
    /\ PermissionDone("has_permission")
    /\ permission_call.args = [role |-> "agent", permission |-> "ban_user"]
    /\ permission_call.result = FALSE

(***************************************************************************)
(* Trust score decay: expired documents and the forecast                   *)
(***************************************************************************)

\* The documents of an expiry call whose expiry_date is before now.
ExpiredCount ==
    Cardinality({i \in 1 .. Len(decay_call.args.documents) :
                    /\ "expiry_date" \in DOMAIN decay_call.args.documents[i]
                    /\ decay_call.args.documents[i].expiry_date < decay_call.args.now})

\* C24 as stated: total_decay is 0.10 * current_score for each document
\* whose expiry_date is before now, and with more than 10 such documents it
\* exceeds the current score.
C24_ExpiryDecayExceedsScore ==
    DecayDone("calculate_document_expiry_decay") =>
        /\ decay_call.result.total_decay =
              10 * decay_call.args.current_score * ExpiredCount
        /\ ExpiredCount > 10 =>
              decay_call.result.total_decay > decay_call.args.current_score * 100

\* C24, amended: total_decay is 0.10 * current_score for each document whose
\* expiry_date is before now, documents with no expiry date or one not yet
\* passed add nothing, and with more than 10 expired documents the total
\* exceeds a current score that is positive.
C24_ExpiryDecayUncapped ==
    DecayDone("calculate_document_expiry_decay") =>
        /\ decay_call.result.total_decay =
              10 * decay_call.args.current_score * ExpiredCount
        /\ Len(decay_call.result.expired_docs) = ExpiredCount
        /\ (ExpiredCount > 10 /\ decay_call.args.current_score > 0) =>
              decay_call.result.total_decay > decay_call.args.current_score * 100

\* Eleven expired documents, one without expiry date and one expiring now:
\* a score of 450 decays by 495.
C24_Witness ==
    /\ DecayDone("calculate_document_expiry_decay")
    /\ decay_call.args.current_score = 450
    /\ Len(decay_call.args.documents) = 13
    /\ ExpiredCount = 11
    /\ decay_call.result.total_decay = 49500

\* C25: the forecast has weeks_ahead entries, numbered 1, 2, ... in order;
\* every week has the same decay factor f, and its projected score is the
\* score before it times (1 - f), so the projected scores do not increase
\* and are not negative; with last_activity at most 30 days before now,
\* every week shows a decay of 0 and the current score.
C25_ForecastUsesOneElapsedTime ==
    DecayDone("get_decay_forecast") =>
        LET a == decay_call.args
            forecast == decay_call.result
            weeks == 1 .. Len(forecast)
        IN  /\ Len(forecast) = a.weeks_ahead
            /\ \A k \in weeks : forecast[k].week = k
            /\ \A j, k \in weeks :
                  forecast[j].decay.decay_factor = forecast[k].decay.decay_factor
            /\ \A k \in weeks :
                  /\ forecast[k].decay.score =
                        IF k = 1 THEN Product(a.current_score, <<>>)
                        ELSE forecast[k - 1].projected_score
                  /\ forecast[k].projected_score =
                        Product(forecast[k].decay.score.points,
                                Append(forecast[k].decay.score.keep,
                                       1000000 - forecast[k].decay.decay_factor))
                  /\ forecast[k].decay.decay_factor \in 0 .. 1000000
                  /\ forecast[k].projected_score.points >= 0
            /\ a.now - a.last_activity <= INACTIVITY_THRESHOLD_DAYS * HoursPerDay =>
                  \A k \in weeks :
                      /\ forecast[k].decay.decay_factor = 0
                      /\ forecast[k].projected_score.points = a.current_score
                      /\ \A i \in 1 .. k : forecast[k].projected_score.keep[i] = 1000000

(***************************************************************************)
(* Rate limiter: denied requests                                           *)
(***************************************************************************)

\* The answer an is_allowed call gives in this step.
NewAnswer == answered'[Len(answered')]

\* What this step does to the timestamps recorded for the client answered.
DeniedLeavesNoRecord ==
    LET client_id == NewAnswer.client_id
        before == _requests[client_id]
        after == _requests'[client_id]
        Remains(ts) == \E i \in 1 .. Len(after) : after[i] = ts
    IN  /\ ~NewAnswer.is_allowed =>
              /\ after = SelectSeq(before, Remains)
              /\ \A i \in 1 .. Len(before) :
                    ~Remains(before[i]) => before[i] + period_seconds <= clock'
        /\ (before # <<>> /\ Oldest(before, 1) + period_seconds <= NewAnswer.now) =>
              NewAnswer.is_allowed

\* C28: a denied is_allowed call records nothing: the client's timestamps
\* afterwards are the ones before, less expired ones; and a call made when
\* the client's oldest recorded request is period_seconds old or older is
\* allowed, whatever requests were denied in between.
C28_DeniedRequestNotRecorded ==
    [][Len(answered') = Len(answered) + 1 => DeniedLeavesNoRecord]_vars

\* A client is allowed, then denied twice, then allowed again, period_seconds
\* after its first request.
C28_Witness ==
    /\ Len(answered) = 4
    /\ \A i \in 1 .. 4 : answered[i].client_id = "10.0.0.1"
    /\ answered[1].is_allowed
    /\ ~answered[2].is_allowed
    /\ ~answered[3].is_allowed
    /\ answered[4].is_allowed
    /\ answered[4].now = answered[1].now + period_seconds
    /\ requests_per_period = 1

(***************************************************************************)
(* Tokens                                                                  *)
(***************************************************************************)

\* The kind of token an operation is meant for.
IssuedFor(operation, payload) ==
    CASE operation = "refresh_token" -> payload.type = "refresh"
      [] operation = "reset_password" -> payload.purpose = "password_reset"
      [] operation = "verify_email" -> payload.purpose = "email_verification"
      [] operation = "get_current_user" ->
            payload.type = "access" /\ payload.purpose = "None"

\* C29: an operation accepts a token only if the token is well formed,
\* signed with the secret key, not expired and of the kind the operation is
\* for: /refresh a refresh token, /reset-password a password_reset token,
\* /verify-email an email_verification token, bearer authentication an
\* access token that is none of these.
C29_TokenAcceptedOnlyByItsOperation ==
    presented.accepted =>
        /\ presented.token.well_formed
        /\ presented.token.key = SECRET_KEY
        /\ presented.token.payload.exp >= presented.at
        /\ IssuedFor(presented.operation, presented.token.payload)

(***************************************************************************)
(* Document service                                                        *)
(***************************************************************************)

\* The confidence and the forgery flag of the analysis of a call, a missing
\* key read as 0 and as false.
AnalysisConfidence ==
    IF "confidence_score" \in DOMAIN service_call.args.analysis_result
    THEN service_call.args.analysis_result.confidence_score ELSE 0

AnalysisForgery ==
    /\ "forgery_detected" \in DOMAIN service_call.args.analysis_result
    /\ service_call.args.analysis_result.forgery_detected

\* C30: verify_document does not answer verified when forgery is detected
\* or a manual review is asked for; it answers rejected exactly when
\* forgery is detected, otherwise verified exactly for a confidence of 0.9
\* or more without manual review, else under_review exactly for a
\* confidence of 0.7 or more, else pending.
C30_VerifiedNeedsNoForgeryNoManualReview ==
    (service_call.op = "verify_document" /\ service_call.done) =>
        LET status == service_call.result
            manual_review == service_call.args.manual_review
        IN  /\ (AnalysisForgery \/ manual_review) => status # "verified"
            /\ status = "rejected" <=> AnalysisForgery
            /\ ~AnalysisForgery =>
                  /\ status = "verified" <=>
                        (AnalysisConfidence >= 90 /\ ~manual_review)
                  /\ status = "under_review" <=>
                        (AnalysisConfidence >= 70
                         /\ ~(AnalysisConfidence >= 90 /\ ~manual_review))
                  /\ status = "pending" <=> AnalysisConfidence < 70

\* A confidence of 1.0 with manual review asked for: under_review.
C30_Witness ==
    /\ service_call.op = "verify_document"
    /\ service_call.done
    /\ service_call.args.manual_review
    /\ ~AnalysisForgery
    /\ AnalysisConfidence = 100
    /\ service_call.result = "under_review"

=============================================================================
